---- MODULE Spec2Model ----
(***************************************************************************)
(* Model of the Yu-Gi-Oh card catalog: CardDatabase (db.py), the fuzzy     *)
(* matcher it drives (fuzzywuzzy process/fuzz on difflib) and the search   *)
(* task (search.py).                                                       *)
(*                                                                         *)
(* A Python str is a sequence of one-character strings, so that formatting,*)
(* lowercasing, tokenising and substring tests are computed, not assumed.  *)
(***************************************************************************)
EXTENDS Integers, Sequences, FiniteSets, TLC

(***************************************************************************)
(* Characters and the str methods the code uses                            *)
(***************************************************************************)
UpperChars == <<"A","B","C","D","E","F","G","H","I","J","K","L","M",
                "N","O","P","Q","R","S","T","U","V","W","X","Y","Z">>

LowerChars == <<"a","b","c","d","e","f","g","h","i","j","k","l","m",
                "n","o","p","q","r","s","t","u","v","w","x","y","z">>

\* Code-point order of the characters that survive full_process.
WordChars == <<"0","1","2","3","4","5","6","7","8","9","_">> \o LowerChars

Whitespace == {" ", "\t", "\n"}

Range(f) == {f[i] : i \in DOMAIN f}

IndexIn(c, chars) == CHOOSE i \in DOMAIN chars : chars[i] = c

\* str.lower() on one character.
LowerChar(c) ==
    IF c \in Range(UpperChars) THEN LowerChars[IndexIn(c, UpperChars)] ELSE c

\* str.lower()
Lower(s) == [i \in DOMAIN s |-> LowerChar(s[i])]

\* regex \w on an ASCII character
IsWord(c) == c \in Range(WordChars) \/ c \in Range(UpperChars)

Ord(c) == IndexIn(c, WordChars)

RECURSIVE LStrip(_)
LStrip(s) ==
    IF s # <<>> /\ Head(s) \in Whitespace THEN LStrip(Tail(s)) ELSE s

RECURSIVE RStrip(_)
RStrip(s) ==
    IF s # <<>> /\ s[Len(s)] \in Whitespace
    THEN RStrip(SubSeq(s, 1, Len(s) - 1)) ELSE s

\* str.strip()
Strip(s) == LStrip(RStrip(s))

\* s[i:i+len(t)] == t, i 1-based
MatchAt(s, t, i) ==
    /\ i + Len(t) - 1 <= Len(s)
    /\ \A k \in 1..Len(t) : s[i + k - 1] = t[k]

\* t in s
Contains(s, t) == \E i \in 1..(Len(s) + 1) : MatchAt(s, t, i)

\* s.find(t), 1-based; 0 when absent
Find(s, t) ==
    IF Contains(s, t)
    THEN CHOOSE i \in 1..(Len(s) + 1) :
            /\ MatchAt(s, t, i)
            /\ \A j \in 1..(i - 1) : ~MatchAt(s, t, j)
    ELSE 0

\* s.replace(t, "", 1)
RemoveFirst(s, t) ==
    LET i == Find(s, t)
    IN  IF i = 0 THEN s
        ELSE SubSeq(s, 1, i - 1) \o SubSeq(s, i + Len(t), Len(s))

\* re.sub(r'\s+', ' ', s)
RECURSIVE CollapseSpaces(_)
CollapseSpaces(s) ==
    IF s = <<>> THEN <<>>
    ELSE IF Head(s) \in Whitespace
         THEN <<" ">> \o CollapseSpaces(LStrip(s))
         ELSE <<Head(s)>> \o CollapseSpaces(Tail(s))

\* str.split(): the whitespace-delimited tokens, in order
RECURSIVE Split(_)
Split(s) ==
    LET t == LStrip(s)
        n == IF \E i \in 1..Len(t) : t[i] \in Whitespace
             THEN (CHOOSE i \in 1..Len(t) :
                      /\ t[i] \in Whitespace
                      /\ \A j \in 1..(i - 1) : t[j] \notin Whitespace) - 1
             ELSE Len(t)
    IN  IF t = <<>> THEN <<>>
        ELSE <<SubSeq(t, 1, n)>> \o Split(SubSeq(t, n + 1, Len(t)))

\* s < t for two str of word characters (Python's code-point order)
RECURSIVE StrLess(_, _)
StrLess(s, t) ==
    IF t = <<>> THEN FALSE
    ELSE IF s = <<>> THEN TRUE
    ELSE IF Head(s) # Head(t) THEN Ord(Head(s)) < Ord(Head(t))
    ELSE StrLess(Tail(s), Tail(t))

\* " ".join(sorted(tokens)) for a set of tokens
RECURSIVE JoinSorted(_)
JoinSorted(tokens) ==
    IF tokens = {} THEN <<>>
    ELSE LET m == CHOOSE x \in tokens : \A y \in tokens \ {x} : StrLess(x, y)
             rest == tokens \ {m}
         IN  IF rest = {} THEN m ELSE m \o <<" ">> \o JoinSorted(rest)

(***************************************************************************)
(* fuzzywuzzy: utils.full_process, fuzz.ratio (difflib.SequenceMatcher),   *)
(* fuzz.token_set_ratio                                                    *)
(***************************************************************************)

\* utils.full_process(s, force_ascii=True): non-word characters become
\* spaces, lowercase, strip.  (All characters of the model are ASCII.)
full_process(s) ==
    Strip(Lower([i \in DOMAIN s |-> IF IsWord(s[i]) THEN s[i] ELSE " "]))

\* Length of the common run of a and b starting at a[i], b[j], inside the
\* windows a[..ahi-1], b[..bhi-1].
RECURSIVE RunLen(_, _, _, _, _, _)
RunLen(a, b, i, j, ahi, bhi) ==
    IF i < ahi /\ j < bhi /\ a[i] = b[j]
    THEN 1 + RunLen(a, b, i + 1, j + 1, ahi, bhi)
    ELSE 0

SetMax(S) == CHOOSE x \in S : \A y \in S : y <= x
SetMin(S) == CHOOSE x \in S : \A y \in S : x <= y

\* SequenceMatcher.find_longest_match(alo, ahi, blo, bhi) without junk:
\* the longest block, earliest in a, then earliest in b.  <<i, j, k>>
find_longest_match(a, b, alo, ahi, blo, bhi) ==
    LET P == {p \in (alo..(ahi - 1)) \X (blo..(bhi - 1)) : a[p[1]] = b[p[2]]}
    IN  IF P = {} THEN <<alo, blo, 0>>
        ELSE LET k  == SetMax({RunLen(a, b, p[1], p[2], ahi, bhi) : p \in P})
                 C  == {p \in P : RunLen(a, b, p[1], p[2], ahi, bhi) = k}
                 i0 == SetMin({p[1] : p \in C})
                 j0 == SetMin({p[2] : p \in {q \in C : q[1] = i0}})
             IN  <<i0, j0, k>>

RECURSIVE matching_total(_, _, _, _, _, _)

\* get_matching_blocks: the block m = <<i, j, k>> found in a window, plus
\* the blocks of the windows to its left and to its right
block_total(a, b, alo, ahi, blo, bhi, m) ==
    IF m[3] = 0 THEN 0
    ELSE m[3]
         + matching_total(a, b, alo, m[1], blo, m[2])
         + matching_total(a, b, m[1] + m[3], ahi, m[2] + m[3], bhi)

\* Sum of the sizes of SequenceMatcher.get_matching_blocks()
matching_total(a, b, alo, ahi, blo, bhi) ==
    IF alo >= ahi \/ blo >= bhi THEN 0
    ELSE block_total(a, b, alo, ahi, blo, bhi,
                     find_longest_match(a, b, alo, ahi, blo, bhi))

\* utils.intr(100 * 2.0 * M / T): Python 3 round(), half to even
RoundRatio(M, T) ==
    LET n == 200 * M
        q == n \div T
        r == n % T
    IN  IF 2 * r < T THEN q
        ELSE IF 2 * r > T THEN q + 1
        ELSE IF q % 2 = 0 THEN q ELSE q + 1

\* fuzz.ratio, with its check_for_equivalence and check_empty_string guards
ratio(s1, s2) ==
    IF s1 = s2 THEN 100
    ELSE IF Len(s1) = 0 \/ Len(s2) = 0 THEN 0
    ELSE RoundRatio(matching_total(s1, s2, 1, Len(s1) + 1, 1, Len(s2) + 1),
                    Len(s1) + Len(s2))

\* The scorer replaced by fuzz.ratio
token_set_ratio_plain(s1, s2) == ratio(s1, s2)

\* _token_set: the pairwise comparisons of the three rebuilt strings,
\* max(ratio(t0, t1), ratio(t0, t2), ratio(t1, t2))
pairwise(t0, t1, t2) ==
    SetMax({ratio(p[1], p[2]) : p \in {<<t0, t1>>, <<t0, t2>>, <<t1, t2>>}})

\* _token_set: the strings rebuilt from the sorted intersection and the
\* two sorted differences
combined(sorted_sect, sorted_1to2, sorted_2to1) ==
    pairwise(Strip(sorted_sect),
             Strip(sorted_sect \o <<" ">> \o sorted_1to2),
             Strip(sorted_sect \o <<" ">> \o sorted_2to1))

\* _token_set on the two token sets
token_sets(tokens1, tokens2) ==
    combined(JoinSorted(tokens1 \cap tokens2),
             JoinSorted(tokens1 \ tokens2),
             JoinSorted(tokens2 \ tokens1))

\* fuzz.token_set_ratio(s1, s2, full_process=False) on processed strings
token_set_ratio(s1, s2) ==
    IF s1 = s2 THEN 100
    ELSE IF Len(s1) = 0 \/ Len(s2) = 0 THEN 0
    ELSE token_sets(Range(Split(s1)), Range(Split(s2)))

\* The score process.extractWithoutOrder gives one choice: both sides go
\* through full_process, then the scorer runs with full_process=False.
Score(query, choice) == token_set_ratio(full_process(query), full_process(choice))

(***************************************************************************)
(* db.py: Card and CardDatabase                                            *)
(***************************************************************************)

\* The Card dataclass: eight str fields.
Card(name, attribute, level, card_type, atk, defense, description, rarity) ==
    [name |-> name, attribute |-> attribute, level |-> level,
     card_type |-> card_type, atk |-> atk, defense |-> defense,
     description |-> description, rarity |-> rarity]

STR_ATK == <<"A", "T", "K", ":", " ">>
STR_DEF == <<"D", "E", "F", ":", " ">>
SP == <<" ">>

\* add_card: the f-string joining name, description, type and attribute
base_text(card) ==
    card.name \o SP \o card.description \o SP \o card.card_type \o SP
        \o card.attribute

\* stat_text with the DEF part written first
stat_text_def_first(card) ==
    (IF card.defense # <<>> THEN STR_DEF \o card.defense ELSE <<>>)
        \o (IF card.atk # <<>> THEN STR_ATK \o card.atk ELSE <<>>)

\* add_card: the "ATK: <v>" / "DEF: <v>" parts, each only for a truthy field
stat_text(card) ==
    (IF card.atk # <<>> THEN STR_ATK \o card.atk ELSE <<>>)
        \o (IF card.defense # <<>> THEN STR_DEF \o card.defense ELSE <<>>)

\* add_card: searchable_text, the corpus key
searchable_text(card) == base_text(card) \o stat_text(card)

\* find_multiple_matches: card_text_for_check; lower() is applied to the
\* f-string only, the stat parts are appended afterwards as they are
card_text_for_check(card) == Lower(base_text(card)) \o stat_text(card)

\* A Python dict as the sequence of its items in insertion order.
DictKeys(d) == [i \in DOMAIN d |-> d[i].key]

DictHas(d, k) == \E i \in DOMAIN d : d[i].key = k

DictGet(d, k) == d[CHOOSE i \in DOMAIN d : d[i].key = k].card

\* DictSet that keeps the first value of a key (dict.setdefault)
DictSet_setdefault(d, k, v) ==
    IF DictHas(d, k) THEN d ELSE Append(d, [key |-> k, card |-> v])

\* d[k] = v: a new key goes last, an existing key keeps its place
DictSet(d, k, v) ==
    IF DictHas(d, k)
    THEN [i \in DOMAIN d |-> IF d[i].key = k THEN [key |-> k, card |-> v] ELSE d[i]]
    ELSE Append(d, [key |-> k, card |-> v])

\* CardDatabase.add_card on the pair (cards, search_corpus)
add_card(db, card) ==
    [cards |-> Append(db.cards, card),
     search_corpus |-> DictSet(db.search_corpus, searchable_text(card), card)]

\* CardDatabase.__init__
EmptyDb == [cards |-> <<>>, search_corpus |-> <<>>]

(***************************************************************************)
(* config.py                                                               *)
(***************************************************************************)
FUZZY_SCORE_CUTOFF_SINGLE == 60
FUZZY_SCORE_CUTOFF_MULTI == 50
\* None is the empty sequence, a limit n is <<n>>
MULTI_SEARCH_LIMIT == <<>>

(***************************************************************************)
(* fuzzywuzzy.process                                                      *)
(***************************************************************************)

\* process.extractWithoutOrder over a list: (choice, score) in list order
extractWithoutOrder(query, choices) ==
    [i \in DOMAIN choices |-> [choice |-> choices[i], score |-> Score(query, choices[i])]]

\* min(best_list, key=score): the first of the lowest-scoring pairs
min_by_score(sl) ==
    IF sl = <<>> THEN <<>>
    ELSE <<sl[CHOOSE i \in DOMAIN sl :
                /\ \A j \in DOMAIN sl : sl[j].score >= sl[i].score
                /\ \A j \in 1..(i - 1) : sl[j].score > sl[i].score]>>

\* max(best_list, key=score): the first of the highest-scoring pairs;
\* None (the empty sequence) when there is no choice
max_by_score(sl) ==
    IF sl = <<>> THEN <<>>
    ELSE <<sl[CHOOSE i \in DOMAIN sl :
                /\ \A j \in DOMAIN sl : sl[j].score <= sl[i].score
                /\ \A j \in 1..(i - 1) : sl[j].score < sl[i].score]>>

\* process.extractOne
extractOne(query, choices) == max_by_score(extractWithoutOrder(query, choices))

\* sorted(sl, key=score)[::-1]: descending, ties in reverse order
RECURSIVE SortedAscendingReversed(_)
SortedAscendingReversed(sl) ==
    IF sl = <<>> THEN <<>>
    ELSE LET i == CHOOSE i \in DOMAIN sl :
                    /\ \A j \in DOMAIN sl : sl[j].score <= sl[i].score
                    /\ \A j \in (i + 1)..Len(sl) : sl[j].score < sl[i].score
         IN  <<sl[i]>> \o SortedAscendingReversed(SubSeq(sl, 1, i - 1) \o SubSeq(sl, i + 1, Len(sl)))

\* sorted(sl, key=score, reverse=True): stable, ties keep their order
RECURSIVE SortedByScoreDesc(_)
SortedByScoreDesc(sl) ==
    IF sl = <<>> THEN <<>>
    ELSE LET i == CHOOSE i \in DOMAIN sl :
                    /\ \A j \in DOMAIN sl : sl[j].score <= sl[i].score
                    /\ \A j \in 1..(i - 1) : sl[j].score < sl[i].score
         IN  <<sl[i]>> \o SortedByScoreDesc(SubSeq(sl, 1, i - 1) \o SubSeq(sl, i + 1, Len(sl)))

Take(s, n) == SubSeq(s, 1, IF n < Len(s) THEN n ELSE Len(s))

\* heapq.nlargest(limit, sl, key=score): the first limit pairs of the
\* descending stable order
nlargest(limit, sl) == Take(SortedByScoreDesc(sl), limit)

\* process.extract, on the scored list sl: sorted(...) without a limit,
\* heapq.nlargest with one
best_list(sl, limit) ==
    IF limit = <<>> THEN SortedByScoreDesc(sl) ELSE nlargest(limit[1], sl)

\* process.extract
extract(query, choices, limit) ==
    best_list(extractWithoutOrder(query, choices), limit)

(***************************************************************************)
(* db.py: CardDatabase.find_best_match and find_multiple_matches           *)
(***************************************************************************)

\* What a search returns: None, one (card, score, query) tuple, or a list
\* of such tuples.  items holds the tuples.
NoneResult == [kind |-> "None", items |-> <<>>]
TupleResult(t) == [kind |-> "tuple", items |-> <<t>>]
ListResult(ts) == [kind |-> "list", items |-> ts]

\* find_best_match, lines 112-117: the cutoff on best_match
best_match_result(db, query, best_match) ==
    IF best_match # <<>> /\ best_match[1].score >= FUZZY_SCORE_CUTOFF_SINGLE
    THEN TupleResult([card |-> DictGet(db.search_corpus, best_match[1].choice),
                      score |-> best_match[1].score,
                      query |-> query])
    ELSE NoneResult

\* CardDatabase.find_best_match
find_best_match(db, query) ==
    IF db.cards = <<>> THEN NoneResult
    ELSE best_match_result(db, query,
                           extractOne(query, DictKeys(db.search_corpus)))

HASH == <<"#">>

\* re.findall(r'#([^#]+)#', query) from position p on: the spans <<i, j>>
\* of the non-overlapping matches, left to right (i, j: the two markers)
RECURSIVE hash_spans(_, _)
hash_spans(query, p) ==
    LET opens == {i \in p..Len(query) :
                    /\ query[i] = "#"
                    /\ \E j \in (i + 2)..Len(query) :
                          /\ query[j] = "#"
                          /\ \A k \in (i + 1)..(j - 1) : query[k] # "#"}
    IN  IF opens = {} THEN <<>>
        ELSE LET i == SetMin(opens)
                 j == SetMin({j \in (i + 2)..Len(query) : query[j] = "#"})
             IN  <<(<<i, j>>)>> \o hash_spans(query, j + 1)

\* found_hash_matches: the group of each match
found_hash_matches(query) ==
    LET spans == hash_spans(query, 1)
    IN  [n \in DOMAIN spans |-> SubSeq(query, spans[n][1] + 1, spans[n][2] - 1)]

\* The loop over found_hash_matches, from match n on
RECURSIVE hash_loop(_, _, _, _)
hash_loop(matches, n, required_keywords, clean_query) ==
    IF n > Len(matches)
    THEN [required_keywords |-> required_keywords, clean_query |-> clean_query]
    ELSE hash_loop(matches, n + 1,
                   Append(required_keywords, Lower(Strip(matches[n]))),
                   Strip(RemoveFirst(clean_query, HASH \o matches[n] \o HASH)))

\* extract_keywords without the final re.sub(r'\s+', ' ', ...)
extract_keywords_nocollapse(query) ==
    [hash_loop(found_hash_matches(query), 1, <<>>, query)
        EXCEPT !.clean_query = Strip(@)]

\* find_multiple_matches, lines 123-133: the required keywords and the
\* cleaned query handed to the scorer
extract_keywords(query) ==
    [hash_loop(found_hash_matches(query), 1, <<>>, query)
        EXCEPT !.clean_query = Strip(CollapseSpaces(@))]

\* The keyword test left out
all_required_found_skip(required_keywords, card) == TRUE

\* The keyword test with any in place of all
all_required_found_any(required_keywords, card) ==
    \E n \in DOMAIN required_keywords :
        Contains(card_text_for_check(card), required_keywords[n])

\* find_multiple_matches, lines 150-155
all_required_found(required_keywords, card) ==
    \A n \in DOMAIN required_keywords :
        Contains(card_text_for_check(card), required_keywords[n])

\* find_multiple_matches, lines 138-158, from entry n of matches on
RECURSIVE filter_results(_, _, _, _, _)
filter_results(db, matches, n, required_keywords, query) ==
    IF n > Len(matches) THEN <<>>
    ELSE LET matched_card == DictGet(db.search_corpus, matches[n].choice)
             keep == /\ matches[n].score >= FUZZY_SCORE_CUTOFF_MULTI
                     /\ all_required_found(required_keywords, matched_card)
             rest == filter_results(db, matches, n + 1, required_keywords, query)
         IN  IF keep
             THEN <<[card |-> matched_card, score |-> matches[n].score,
                     query |-> query]>> \o rest
             ELSE rest

\* find_multiple_matches, lines 135-160, on the keywords and cleaned query kw
multiple_matches_result(db, query, kw) ==
    ListResult(filter_results(db,
                              extract(kw.clean_query, DictKeys(db.search_corpus),
                                      MULTI_SEARCH_LIMIT),
                              1, kw.required_keywords, query))

\* find_multiple_matches returning None on an empty catalog
find_multiple_matches_none(db, query) ==
    IF db.cards = <<>> THEN NoneResult
    ELSE multiple_matches_result(db, query, extract_keywords(query))

\* CardDatabase.find_multiple_matches
find_multiple_matches(db, query) ==
    IF db.cards = <<>> THEN ListResult(<<>>)
    ELSE multiple_matches_result(db, query, extract_keywords(query))

(***************************************************************************)
(* db.py: the cache file                                                   *)
(***************************************************************************)

\* The cache file: absent, not decodable as JSON, or an array of records;
\* a record either has exactly the eight Card fields or is malformed.
AbsentFile == [kind |-> "absent", records |-> <<>>]
InvalidFile == [kind |-> "invalid", records |-> <<>>]
ArrayFile(records) == [kind |-> "array", records |-> records]

ValidRecord(card) == [valid |-> TRUE, card |-> card]

\* load_cache, lines 179-181, from record n on: Card(**card_data) raises on
\* a malformed record, after the records before it were added
RECURSIVE load_records(_, _, _)
load_records(db, records, n) ==
    IF n > Len(records) THEN [db |-> db, ret |-> TRUE]
    ELSE IF ~records[n].valid THEN [db |-> db, ret |-> FALSE]
    ELSE load_records(add_card(db, records[n].card), records, n + 1)

\* CardDatabase.load_cache: the database afterwards and the returned bool
load_cache(db, file) ==
    IF file.kind = "absent" THEN [db |-> db, ret |-> FALSE]
    ELSE IF file.kind = "invalid" THEN [db |-> db, ret |-> FALSE]
    ELSE load_records(db, file.records, 1)

\* cache_data written last card first
cache_data_reversed(cards) ==
    [i \in DOMAIN cards |-> ValidRecord(cards[Len(cards) + 1 - i])]

\* CardDatabase.save_cache: [asdict(card) for card in self.cards]
cache_data(cards) == [i \in DOMAIN cards |-> ValidRecord(cards[i])]

(***************************************************************************)
(* search.py: SearchThread                                                 *)
(***************************************************************************)

\* The try block of SearchThread.run: the matcher call on the thread's db.
\* The matcher raises nothing on a CardDatabase built by add_card.
matcher_call(db, query, multi_match) ==
    [raised |-> FALSE,
     results |-> IF multi_match THEN find_multiple_matches(db, query)
                 ELSE find_best_match(db, query)]

\* SearchThread.run, lines 21-25: what is emitted after the matcher call r;
\* error tells the except branch (results None, elapsed 0.0) from the
\* normal one.
emitted(r) ==
    IF r.raised THEN [results |-> NoneResult, error |-> TRUE]
    ELSE [results |-> r.results, error |-> FALSE]

\* SearchThread.run: the one search_finished event it emits
SearchThread_run(db, query, multi_match) ==
    emitted(matcher_call(db, query, multi_match))

(***************************************************************************)
(* scraper.py: the page fragment of one card (a bs4 Tag) and the selector  *)
(* calls ScraperThread makes on it                                         *)
(***************************************************************************)

\* One descendant element of a card_div.  An absent attribute is <<>>, an
\* attribute with value v is <<v>>.  text is the element's own string, which
\* precedes its children; parent is the index of the parent element, 0 for
\* a child of the card_div itself.
Element(tag, class, title, src, alt, text, parent) ==
    [tag |-> tag, class |-> class, title |-> title, src |-> src, alt |-> alt,
     text |-> text, parent |-> parent]

\* A card_div: its own class list, its descendants in document order, and
\* whether working on it raises (the except branch of scraper.py:117).
Fragment(class, elements, raises) ==
    [class |-> class, elements |-> elements, raises |-> raises]

\* The card_div as an element, for the ancestor part of a selector
RootElement(card_div) == Element("div", card_div.class, <<>>, <<>>, <<>>, <<>>, 0)

NodeAt(card_div, k) ==
    IF k = 0 THEN RootElement(card_div) ELSE card_div.elements[k]

\* The ancestors of element j inside the card_div; 0 is the card_div
RECURSIVE AncestorsOf(_, _)
AncestorsOf(elements, j) ==
    IF j = 0 THEN {}
    ELSE {elements[j].parent} \cup AncestorsOf(elements, elements[j].parent)

\* The descendants of scope (0: of the card_div), as indices
Descendants(card_div, scope) ==
    {j \in DOMAIN card_div.elements : scope \in AncestorsOf(card_div.elements, j)}

\* The element sibling just before element j; 0 when there is none
PrevSibling(elements, j) ==
    SetMax({0} \cup {k \in 1..(j - 1) : elements[k].parent = elements[j].parent})

\* A compound selector tag.class[attr*="sub"]; "" leaves a part out and
\* [attr] alone is written with the empty sub
Sel(tag, class, attr, sub) == [tag |-> tag, class |-> class, attr |-> attr, sub |-> sub]

MatchSimple(e, sel) ==
    /\ sel.tag = "" \/ e.tag = sel.tag
    /\ sel.class = "" \/ sel.class \in e.class
    /\ sel.attr = "" \/ (e[sel.attr] # <<>> /\ Contains(e[sel.attr][1], sel.sub))

\* The three selector shapes of scraper.py: "s", "a s" and "p + s"
Plain(self) == [anc |-> <<>>, prev |-> <<>>, self |-> self]
Within(anc, self) == [anc |-> <<anc>>, prev |-> <<>>, self |-> self]
After(prev, self) == [anc |-> <<>>, prev |-> <<prev>>, self |-> self]

Matches(card_div, j, c) ==
    /\ MatchSimple(card_div.elements[j], c.self)
    /\ c.anc = <<>> \/
          \E k \in AncestorsOf(card_div.elements, j) :
              MatchSimple(NodeAt(card_div, k), c.anc[1])
    /\ c.prev = <<>> \/
          /\ PrevSibling(card_div.elements, j) # 0
          /\ MatchSimple(card_div.elements[PrevSibling(card_div.elements, j)],
                         c.prev[1])

\* Tag.select(group) below scope: the matching descendants, as indices; a
\* group is the set of the comma-separated selectors
select(card_div, scope, group) ==
    {j \in Descendants(card_div, scope) : \E c \in group : Matches(card_div, j, c)}

\* Tag.select_one(group): the first match in document order, 0 for None
select_one(card_div, scope, group) == SetMin({Len(card_div.elements) + 1} \cup select(card_div, scope, group)) % (Len(card_div.elements) + 1)

\* Tag.text of element i: the strings of the element and of its
\* descendants, concatenated, from element j on
RECURSIVE text_from(_, _, _)
text_from(card_div, i, j) ==
    IF j > Len(card_div.elements) THEN <<>>
    ELSE (IF j = i \/ i \in AncestorsOf(card_div.elements, j)
          THEN card_div.elements[j].text ELSE <<>>)
         \o text_from(card_div, i, j + 1)

text(card_div, i) == text_from(card_div, i, 1)

\* The stripped non-empty strings of element i (0: of the card_div) and
\* its descendants, in document order, from element j on
RECURSIVE stripped_strings(_, _, _)
stripped_strings(card_div, i, j) ==
    IF j > Len(card_div.elements) THEN <<>>
    ELSE (IF (j = i \/ i \in AncestorsOf(card_div.elements, j))
              /\ Strip(card_div.elements[j].text) # <<>>
          THEN <<Strip(card_div.elements[j].text)>> ELSE <<>>)
         \o stripped_strings(card_div, i, j + 1)

\* separator.join(strings)
RECURSIVE JoinWith(_, _)
JoinWith(separator, strings) ==
    IF strings = <<>> THEN <<>>
    ELSE IF Len(strings) = 1 THEN strings[1]
    ELSE strings[1] \o separator \o JoinWith(separator, Tail(strings))

\* Tag.get_text(separator, strip=True)
get_text(card_div, i, separator) ==
    JoinWith(separator, stripped_strings(card_div, i, 1))

\* ' '.join(s.split())
JoinWords(s) == JoinWith(<<" ">>, Split(s))

Digits == {"0", "1", "2", "3", "4", "5", "6", "7", "8", "9"}

\* The run of digits at the head of s
RECURSIVE DigitRun(_)
DigitRun(s) ==
    IF s # <<>> /\ Head(s) \in Digits THEN <<Head(s)>> \o DigitRun(Tail(s))
    ELSE <<>>

\* re.search(r'(\d+)', s): <<group 1>>, or <<>> without a match
RECURSIVE search_digits(_)
search_digits(s) ==
    IF s = <<>> THEN <<>>
    ELSE IF Head(s) \in Digits THEN <<DigitRun(s)>>
    ELSE search_digits(Tail(s))

\* re.search(r'(\d+|[?])', s)
RECURSIVE search_number(_)
search_number(s) ==
    IF s = <<>> THEN <<>>
    ELSE IF Head(s) \in Digits THEN <<DigitRun(s)>>
    ELSE IF Head(s) = "?" THEN << <<"?">> >>
    ELSE search_number(Tail(s))

STR_NA == <<"N", "/", "A">>
STR_NO_DESCRIPTION == <<"N", "o", " ", "D", "e", "s", "c", "r", "i", "p", "t", "i", "o", "n">>

(***************************************************************************)
(* scraper.py: ScraperThread.extract_card_info and its helpers             *)
(***************************************************************************)

\* extract_card_name: selectors
name_selectors ==
    << {Plain(Sel("span", "card_name", "", <<>>))},
       {Plain(Sel("", "card_name_flex_1", "", <<>>))},
       {Plain(Sel("", "card_name", "", <<>>))},
       {Plain(Sel("a", "", "title", <<>>))},
       {Within(Sel("", "t_title", "", <<>>), Sel("a", "", "", <<>>))} >>

\* element.get('title') or element.text.strip()
title_or_text(card_div, element) ==
    IF card_div.elements[element].title # <<>>
        /\ card_div.elements[element].title[1] # <<>>
    THEN card_div.elements[element].title[1]
    ELSE Strip(text(card_div, element))

RECURSIVE name_loop(_, _)

\* extract_card_name, lines 163-166, for the element of selector n
name_try(card_div, n, element) ==
    IF element # 0 /\ title_or_text(card_div, element) # <<>>
    THEN <<title_or_text(card_div, element)>>
    ELSE name_loop(card_div, n + 1)

\* extract_card_name, the loop from selector n on; <<>> is None
name_loop(card_div, n) ==
    IF n > Len(name_selectors) THEN <<>>
    ELSE name_try(card_div, n, select_one(card_div, 0, name_selectors[n]))

\* ScraperThread.extract_card_name: <<name>>, or <<>> for None
extract_card_name(card_div) == name_loop(card_div, 1)

\* extract_attribute: the if/elif chain, in its order
attribute_keywords ==
    << [kw |-> <<"l", "i", "g", "h", "t">>, attribute |-> <<"L", "I", "G", "H", "T">>],
       [kw |-> <<"d", "a", "r", "k">>, attribute |-> <<"D", "A", "R", "K">>],
       [kw |-> <<"f", "i", "r", "e">>, attribute |-> <<"F", "I", "R", "E">>],
       [kw |-> <<"w", "a", "t", "e", "r">>, attribute |-> <<"W", "A", "T", "E", "R">>],
       [kw |-> <<"e", "a", "r", "t", "h">>, attribute |-> <<"E", "A", "R", "T", "H">>],
       [kw |-> <<"w", "i", "n", "d">>, attribute |-> <<"W", "I", "N", "D">>],
       [kw |-> <<"d", "i", "v", "i", "n", "e">>, attribute |-> <<"D", "I", "V", "I", "N", "E">>],
       [kw |-> <<"s", "p", "e", "l", "l">>, attribute |-> <<"S", "P", "E", "L", "L">>],
       [kw |-> <<"t", "r", "a", "p">>, attribute |-> <<"T", "R", "A", "P">>] >>

\* The first branch of the chain that attr_text takes; 0 when it takes none
keyword_in(attr_text) ==
    SetMin({Len(attribute_keywords) + 1} \cup
           {n \in DOMAIN attribute_keywords :
               Contains(attr_text, attribute_keywords[n].kw)})
        % (Len(attribute_keywords) + 1)

\* element.get(a, '')
get_attr(e, a) == IF e[a] = <<>> THEN <<>> ELSE e[a][1]

\* [src.lower(), alt, title] of the icon
icon_texts(e) ==
    << Lower(get_attr(e, "src")), Lower(get_attr(e, "alt")),
       Lower(get_attr(e, "title")) >>

\* extract_attribute, lines 179-197: <<attribute>> from the first of the
\* three texts that holds a keyword, <<>> when none does
icon_attribute(texts) ==
    IF \A n \in DOMAIN texts : keyword_in(texts[n]) = 0 THEN <<>>
    ELSE <<attribute_keywords[
              keyword_in(texts[SetMin({n \in DOMAIN texts :
                                          keyword_in(texts[n]) # 0})])].attribute>>

STR_Spell == <<"S", "p", "e", "l", "l">>
STR_Trap == <<"T", "r", "a", "p">>
STR_spell == <<"s", "p", "e", "l", "l">>
STR_trap == <<"t", "r", "a", "p">>

attribute_icon_selector ==
    {Plain(Sel("img", "", "src", <<"a", "t", "t", "r", "i", "b", "u", "t", "e">>)), Plain(Sel("", "icon_img", "", <<>>))}

spell_icon_selector ==
    {Plain(Sel("", "icon_img", "title", STR_Spell)), Plain(Sel("", "icon_img", "alt", STR_Spell))}

trap_icon_selector ==
    {Plain(Sel("", "icon_img", "title", STR_Trap)), Plain(Sel("", "icon_img", "alt", STR_Trap))}

\* safe_extract_text's return for the found element text
text_or_default(element_text, default) ==
    IF element_text # <<>> THEN JoinWords(element_text) ELSE default

\* ScraperThread.safe_extract_text(parent, tag, class_name, default), with
\* nested_span left at False as in its one call
safe_extract_text(card_div, tag, class_name, default) ==
    IF select_one(card_div, 0, {Plain(Sel(tag, class_name, "", <<>>))}) = 0
    THEN default
    ELSE text_or_default(
             text(card_div, select_one(card_div, 0, {Plain(Sel(tag, class_name, "", <<>>))})),
             default)

\* extract_attribute, lines 199-206
attribute_fallback(card_div) ==
    IF select_one(card_div, 0, spell_icon_selector) # 0 THEN <<"S", "P", "E", "L", "L">>
    ELSE IF select_one(card_div, 0, trap_icon_selector) # 0 THEN <<"T", "R", "A", "P">>
    ELSE safe_extract_text(card_div, "div", "box_card_attribute", STR_NA)

\* extract_attribute, lines 172-197, on the icon found (0: none)
attribute_of_icon(card_div, attribute_icon) ==
    IF attribute_icon # 0
        /\ icon_attribute(icon_texts(card_div.elements[attribute_icon])) # <<>>
    THEN icon_attribute(icon_texts(card_div.elements[attribute_icon]))[1]
    ELSE attribute_fallback(card_div)

\* ScraperThread.extract_attribute
extract_attribute(card_div) ==
    attribute_of_icon(card_div, select_one(card_div, 0, attribute_icon_selector))

level_selector ==
    {Within(Sel("", "box_card_level_rank", "", <<>>), Sel("span", "", "", <<>>)),
     Plain(Sel("", "item_box_value", "", <<>>))}

\* extract_level_rank on the element found (0: none)
level_of(card_div, level_element) ==
    IF level_element # 0
        /\ search_digits(Strip(text(card_div, level_element))) # <<>>
    THEN search_digits(Strip(text(card_div, level_element)))[1]
    ELSE STR_NA

\* ScraperThread.extract_level_rank
extract_level_rank(card_div) ==
    level_of(card_div, select_one(card_div, 0, level_selector))

type_selectors ==
    << {Within(Sel("", "card_info_species_and_other_item", "", <<>>), Sel("span", "", "", <<>>))},
       {Plain(Sel("", "species", "", <<>>))},
       {Plain(Sel("", "card_type", "", <<>>))},
       {After(Sel("div", "item_box_title", "", <<>>), Sel("", "item_box_value", "", <<>>))},
       {Plain(Sel("", "item_box_value", "", <<>>))},
       {Plain(Sel("span", "", "title", STR_Spell))},
       {Plain(Sel("span", "", "title", STR_Trap))},
       {Within(Sel("", "box_card_species", "", <<>>), Sel("span", "", "", <<>>))},
       {Within(Sel("", "card_info", "", <<>>), Sel("span", "", "", <<>>))} >>

\* extract_card_type, lines 243-248, on the cleaned card_type: <<card_type>>
\* when the loop returns it, <<>> when the loop goes on
type_returned(card_type) ==
    IF Contains(Lower(card_type), STR_spell) \/ Contains(Lower(card_type), STR_trap)
    THEN <<card_type>>
    ELSE IF card_type \notin {<<>>, STR_NA, <<"-">>} THEN <<card_type>>
    ELSE <<>>

\* extract_card_type, lines 237-248, on element.text.strip()
type_of_text(card_type) ==
    IF card_type # <<>> /\ card_type # STR_NA
    THEN type_returned(JoinWords(card_type))
    ELSE <<>>

\* extract_card_type, lines 236-248, on the element of one selector
type_of_element(card_div, element) ==
    IF element = 0 THEN <<>> ELSE type_of_text(Strip(text(card_div, element)))

\* extract_card_type, lines 234-248: what the selector loop returns from
\* selector n on; <<>> when it returns nothing
RECURSIVE type_loop(_, _)
type_loop(card_div, n) ==
    IF n > Len(type_selectors) THEN <<>>
    ELSE IF type_of_element(card_div, select_one(card_div, 0, type_selectors[n])) # <<>>
         THEN type_of_element(card_div, select_one(card_div, 0, type_selectors[n]))
         ELSE type_loop(card_div, n + 1)

spell_indicators ==
    spell_icon_selector \cup {Plain(Sel("img", "", "src", STR_spell))}

trap_indicators ==
    trap_icon_selector \cup {Plain(Sel("img", "", "src", STR_trap))}

\* The subtype chains of lines 257-266 and 274-277: the words looked for
\* next to 'spell' or 'trap', and the card type returned
spell_subtypes ==
    << [word |-> <<"c", "o", "n", "t", "i", "n", "u", "o", "u", "s">>, card_type |-> <<"C", "o", "n", "t", "i", "n", "u", "o", "u", "s", " ", "S", "p", "e", "l", "l">>],
       [word |-> <<"q", "u", "i", "c", "k", "-", "p", "l", "a", "y">>, card_type |-> <<"Q", "u", "i", "c", "k", "-", "P", "l", "a", "y", " ", "S", "p", "e", "l", "l">>],
       [word |-> <<"f", "i", "e", "l", "d">>, card_type |-> <<"F", "i", "e", "l", "d", " ", "S", "p", "e", "l", "l">>],
       [word |-> <<"e", "q", "u", "i", "p">>, card_type |-> <<"E", "q", "u", "i", "p", " ", "S", "p", "e", "l", "l">>],
       [word |-> <<"r", "i", "t", "u", "a", "l">>, card_type |-> <<"R", "i", "t", "u", "a", "l", " ", "S", "p", "e", "l", "l">>] >>

trap_subtypes ==
    << [word |-> <<"c", "o", "n", "t", "i", "n", "u", "o", "u", "s">>, card_type |-> <<"C", "o", "n", "t", "i", "n", "u", "o", "u", "s", " ", "T", "r", "a", "p">>],
       [word |-> <<"c", "o", "u", "n", "t", "e", "r">>, card_type |-> <<"C", "o", "u", "n", "t", "e", "r", " ", "T", "r", "a", "p">>] >>

\* One pass of a subtype chain over the text of one element: the index of
\* the branch taken, 0 for none
subtype_in(element_text, subtypes, kind) ==
    SetMin({Len(subtypes) + 1} \cup
           {n \in DOMAIN subtypes :
               Contains(element_text, subtypes[n].word) /\ Contains(element_text, kind)})
        % (Len(subtypes) + 1)

\* for element in card_div.select('*'), from element j on: the subtype of
\* the first element whose text takes a branch, else the default
RECURSIVE subtype_loop(_, _, _, _, _)
subtype_loop(card_div, j, subtypes, kind, default) ==
    IF j > Len(card_div.elements) THEN default
    ELSE IF subtype_in(Lower(get_text(card_div, j, <<>>)), subtypes, kind) # 0
         THEN subtypes[subtype_in(Lower(get_text(card_div, j, <<>>)), subtypes, kind)].card_type
         ELSE subtype_loop(card_div, j + 1, subtypes, kind, default)

\* The chain of lines 285-304 on all_text, in its order
text_types ==
    << <<"C", "o", "n", "t", "i", "n", "u", "o", "u", "s", " ", "S", "p", "e", "l", "l">>, <<"Q", "u", "i", "c", "k", "-", "P", "l", "a", "y", " ", "S", "p", "e", "l", "l">>, <<"F", "i", "e", "l", "d", " ", "S", "p", "e", "l", "l">>,
       <<"E", "q", "u", "i", "p", " ", "S", "p", "e", "l", "l">>, <<"R", "i", "t", "u", "a", "l", " ", "S", "p", "e", "l", "l">>, <<"N", "o", "r", "m", "a", "l", " ", "S", "p", "e", "l", "l">>,
       <<"C", "o", "n", "t", "i", "n", "u", "o", "u", "s", " ", "T", "r", "a", "p">>, <<"C", "o", "u", "n", "t", "e", "r", " ", "T", "r", "a", "p">>, <<"N", "o", "r", "m", "a", "l", " ", "T", "r", "a", "p">> >>

\* extract_card_type, lines 282-306
type_of_all_text(all_text) ==
    IF \A n \in DOMAIN text_types : ~Contains(all_text, Lower(text_types[n]))
    THEN STR_NA
    ELSE text_types[SetMin({n \in DOMAIN text_types :
                               Contains(all_text, Lower(text_types[n]))})]

\* extract_card_type, lines 250-306
type_fallback(card_div) ==
    IF select(card_div, 0, spell_indicators) # {}
    THEN subtype_loop(card_div, 1, spell_subtypes, STR_spell, <<"N", "o", "r", "m", "a", "l", " ", "S", "p", "e", "l", "l">>)
    ELSE IF select(card_div, 0, trap_indicators) # {}
    THEN subtype_loop(card_div, 1, trap_subtypes, STR_trap, <<"N", "o", "r", "m", "a", "l", " ", "T", "r", "a", "p">>)
    ELSE type_of_all_text(Lower(get_text(card_div, 0, <<>>)))

\* extract_card_type on what the selector loop returned
type_or_fallback(card_div, found) ==
    IF found # <<>> THEN found[1] ELSE type_fallback(card_div)

\* ScraperThread.extract_card_type
extract_card_type(card_div) == type_or_fallback(card_div, type_loop(card_div, 1))

atkdef_selector ==
    {Plain(Sel("", "atkdef", "", <<>>)), Plain(Sel("", "item_box", "", <<>>))}

atk_selector ==
    {Within(Sel("", "atk_power", "", <<>>), Sel("span", "", "", <<>>)),
     Plain(Sel("", "item_box_value", "", <<>>))}

def_selector ==
    {Within(Sel("", "def_power", "", <<>>), Sel("span", "", "", <<>>)),
     Plain(Sel("", "item_box_value", "", <<>>))}

\* extract_atk_def, lines 316-322 and 325-330: one stat from its element
stat_of(card_div, element) ==
    IF element # 0 /\ search_number(Strip(text(card_div, element))) # <<>>
    THEN search_number(Strip(text(card_div, element)))[1]
    ELSE STR_NA

\* extract_atk_def on the container found (0: none)
atk_def_in(card_div, atkdef_container) ==
    IF atkdef_container = 0 THEN [atk |-> STR_NA, defense |-> STR_NA]
    ELSE [atk |-> stat_of(card_div, select_one(card_div, atkdef_container, atk_selector)),
          defense |-> stat_of(card_div, select_one(card_div, atkdef_container, def_selector))]

\* ScraperThread.extract_atk_def
extract_atk_def(card_div) ==
    atk_def_in(card_div, select_one(card_div, 0, atkdef_selector))

desc_selectors ==
    << {Plain(Sel("dd", "box_card_text", "", <<>>))},
       {Plain(Sel("", "card_text", "", <<>>))},
       {Plain(Sel("", "text_title", "", <<>>))} >>

\* extract_description, lines 343-348, on the element of one selector
desc_of(card_div, element) ==
    IF element # 0
        /\ get_text(card_div, element, <<" ">>) \notin {<<>>, STR_NO_DESCRIPTION}
    THEN <<get_text(card_div, element, <<" ">>)>>
    ELSE <<>>

RECURSIVE desc_loop(_, _)
desc_loop(card_div, n) ==
    IF n > Len(desc_selectors) THEN STR_NO_DESCRIPTION
    ELSE IF desc_of(card_div, select_one(card_div, 0, desc_selectors[n])) # <<>>
         THEN desc_of(card_div, select_one(card_div, 0, desc_selectors[n]))[1]
         ELSE desc_loop(card_div, n + 1)

\* ScraperThread.extract_description
extract_description(card_div) == desc_loop(card_div, 1)

\* extract_rarity: the rarity names of lines 366-367
rarity_names ==
    { <<"U", "l", "t", "r", "a", " ", "R", "a", "r", "e">>, <<"S", "u", "p", "e", "r", " ", "R", "a", "r", "e">>, <<"S", "e", "c", "r", "e", "t", " ", "R", "a", "r", "e">>, <<"C", "o", "m", "m", "o", "n">>, <<"R", "a", "r", "e">>,
      <<"G", "h", "o", "s", "t", " ", "R", "a", "r", "e">>, <<"U", "l", "t", "i", "m", "a", "t", "e", " ", "R", "a", "r", "e">>, <<"P", "a", "r", "a", "l", "l", "e", "l", " ", "R", "a", "r", "e">>, <<"G", "o", "l", "d", " ", "R", "a", "r", "e">> }

rarity_selectors ==
    << {Within(Sel("", "rarity", "", <<>>), Sel("span", "", "", <<>>))},
       {Plain(Sel("", "rarity", "", <<>>))},
       {Plain(Sel("", "star_shining", "", <<>>))},
       {Plain(Sel("", "star_gold", "", <<>>))},
       {Plain(Sel("", "star_silver", "", <<>>))},
       {Plain(Sel("", "icon_rarity", "", <<>>))} >>

\* extract_rarity, lines 373-375, on the element of one selector
rarity_of(card_div, element) ==
    IF element = 0 THEN <<>> ELSE Strip(text(card_div, element))

\* extract_rarity, lines 370-377
RECURSIVE rarity_loop(_, _)
rarity_loop(card_div, n) ==
    IF n > Len(rarity_selectors) THEN STR_NA
    ELSE IF rarity_of(card_div, select_one(card_div, 0, rarity_selectors[n])) # <<>>
         THEN rarity_of(card_div, select_one(card_div, 0, rarity_selectors[n]))
         ELSE rarity_loop(card_div, n + 1)

\* ScraperThread.extract_rarity: lines 364-368 return the text of the first
\* element, in document order, whose whole text is a rarity name
extract_rarity(card_div) ==
    IF \E j \in DOMAIN card_div.elements : get_text(card_div, j, <<>>) \in rarity_names
    THEN get_text(card_div,
                  SetMin({j \in DOMAIN card_div.elements :
                             get_text(card_div, j, <<>>) \in rarity_names}),
                  <<>>)
    ELSE rarity_loop(card_div, 1)

\* extract_card_info, lines 131-149, for the name found
card_of(card_div, name) ==
    Card(name, extract_attribute(card_div), extract_level_rank(card_div),
         extract_card_type(card_div), extract_atk_def(card_div).atk,
         extract_atk_def(card_div).defense, extract_description(card_div),
         extract_rarity(card_div))

\* card_or_none without the return None of line 129: a fragment without
\* name gives a Card with the empty name
card_even_unnamed(card_div, name) ==
    <<card_of(card_div, IF name = <<>> THEN <<>> ELSE name[1])>>

\* extract_card_info for the result of extract_card_name
card_or_none(card_div, name) ==
    IF name = <<>> THEN <<>> ELSE <<card_of(card_div, name[1])>>

\* ScraperThread.extract_card_info: <<card>>, or <<>> for None
extract_card_info(card_div) == card_or_none(card_div, extract_card_name(card_div))

(***************************************************************************)
(* Rows of the pack pages                                                  *)
(***************************************************************************)
\* A row with every part of a monster card
FullFragment ==
    Fragment({"t_row"},
        << Element("span", {"card_name"}, <<>>, <<>>, <<>>, <<"a">>, 0),
           Element("img", {"icon_img"}, <<>>, << <<"i", "m", "g", "/", "a", "t", "t", "r", "i", "b", "u", "t", "e", "_", "i", "c", "o", "n", "_", "d", "a", "r", "k", ".", "p", "n", "g">> >>,
                   << <<"D", "A", "R", "K">> >>, <<>>, 0),
           Element("span", {"box_card_level_rank"}, <<>>, <<>>, <<>>, <<>>, 0),
           Element("span", {}, <<>>, <<>>, <<>>, <<"L", "e", "v", "e", "l", " ", "4">>, 3),
           Element("span", {"card_info_species_and_other_item"}, <<>>, <<>>, <<>>, <<>>, 0),
           Element("span", {}, <<>>, <<>>, <<>>, <<" ", "c", " ", " ", "d", " ">>, 5),
           Element("div", {"atkdef"}, <<>>, <<>>, <<>>, <<>>, 0),
           Element("span", {"atk_power"}, <<>>, <<>>, <<>>, <<>>, 7),
           Element("span", {}, <<>>, <<>>, <<>>, <<"A", "T", "K", " ", "1">>, 8),
           Element("span", {"def_power"}, <<>>, <<>>, <<>>, <<>>, 7),
           Element("span", {}, <<>>, <<>>, <<>>, <<"D", "E", "F", " ", "?">>, 10),
           Element("dd", {"box_card_text"}, <<>>, <<>>, <<>>, <<"b">>, 0),
           Element("span", {"rarity"}, <<>>, <<>>, <<>>, <<"R">>, 0) >>,
        FALSE)

\* A spell row: an icon titled Spell, the subtype in a text next to it
SpellFragment ==
    Fragment({"t_row"},
        << Element("a", {}, << <<"s">> >>, <<>>, <<>>, <<>>, 0),
           Element("img", {"icon_img"}, << <<"S", "p", "e", "l", "l">> >>, <<>>, <<>>, <<>>, 0),
           Element("div", {"box_card_attribute"}, <<>>, <<>>, <<>>, <<" ", "x", " ", " ", "y", " ">>, 0),
           Element("span", {"other"}, <<>>, <<>>, <<>>, <<"F", "i", "e", "l", "d", " ", "S", "p", "e", "l", "l">>, 0) >>,
        FALSE)

\* A row of item boxes: a title box followed by its value
ItemBoxFragment ==
    Fragment({"t_row"},
        << Element("span", {"card_name"}, <<>>, <<>>, <<>>, <<"i">>, 0),
           Element("div", {"item_box"}, <<>>, <<>>, <<>>, <<>>, 0),
           Element("div", {"item_box_title"}, <<>>, <<>>, <<>>, <<"t">>, 2),
           Element("span", {"item_box_value"}, <<>>, <<>>, <<>>, <<"x", " ", "1", "2">>, 2),
           Element("div", {"text_title"}, <<>>, <<>>, <<>>, <<"N", "o", " ", "D", "e", "s", "c", "r", "i", "p", "t", "i", "o", "n">>, 0),
           Element("div", {"icon_rarity"}, <<>>, <<>>, <<>>, <<"U">>, 0) >>,
        FALSE)

\* A row without any name node
NamelessFragment ==
    Fragment({"t_row"},
        << Element("span", {"card_name"}, << <<>> >>, <<>>, <<>>, <<" ">>, 0),
           Element("a", {}, <<>>, <<>>, <<>>, <<"n">>, 0) >>,
        FALSE)

\* A row on which the extraction raises
RaisingFragment ==
    Fragment({"t_row"}, <<Element("span", {"card_name"}, <<>>, <<>>, <<>>, <<"r">>, 0)>>, TRUE)

\* A row whose name node has a blank title attribute
BlankTitleFragment ==
    Fragment({"t_row"}, <<Element("span", {"card_name"}, << <<" ">> >>, <<>>, <<>>, <<"b">>, 0)>>,
             FALSE)

\* A row of a fetched pack page, as the loop of scrape_cards_from_url meets
\* it: whether the work on its card_div raises, and else what
\* self.extract_card_info(card_div) returns (scraper.py:111-113)
Row(card_div) ==
    [raises |-> card_div.raises,
     card |-> IF card_div.raises THEN <<>> ELSE extract_card_info(card_div)]

(***************************************************************************)
(* scraper.py: the pack list, the pages of the site and ScraperThread.run  *)
(***************************************************************************)
\* One element of the JSON array of config.PACK_URLS_FILE: a dict with the
\* keys name and url (scraper.py:31), or one without them, on which
\* pack['name'] raises KeyError (scraper.py:73).
PackEntry(url) == [valid |-> TRUE, url |-> url]

BadPackEntry == [valid |-> FALSE, url |-> 0]

\* The file at config.PACK_URLS_FILE: absent, not a JSON document, or a list
AbsentPackFile == [kind |-> "absent", packs |-> <<>>]

InvalidPackFile == [kind |-> "invalid", packs |-> <<>>]

PackFile(packs) == [kind |-> "list", packs |-> packs]

\* What session.get(url) and the parse give for one pack page: a failure, or
\* card_rows, each as a Row (no card list: no rows)
FailedPage == [ok |-> FALSE, card_rows |-> <<>>]

Page(card_rows) == [ok |-> TRUE, card_rows |-> card_rows]

\* scrape_cards_from_url, lines 114-116: if card: add_card; cards_found += 1
card_added(r, card) ==
    IF card = <<>> THEN r
    ELSE [db |-> add_card(r.db, card[1]), cards_found |-> r.cards_found + 1]

\* scrape_cards_from_url, lines 112-119: one row; an exception is logged
\* and the loop continues
row_done(r, row) ==
    IF row.raises THEN r ELSE card_added(r, row.card)

\* scrape_cards_from_url, lines 111-119, from row n on
RECURSIVE rows_loop(_, _, _)
rows_loop(r, card_rows, n) ==
    IF n > Len(card_rows) THEN r
    ELSE rows_loop(row_done(r, card_rows[n]), card_rows, n + 1)

\* ScraperThread.scrape_cards_from_url: the database afterwards and the
\* returned count
scrape_cards_from_url(db, page) ==
    IF page.ok THEN rows_loop([db |-> db, cards_found |-> 0], page.card_rows, 1)
    ELSE [db |-> db, cards_found |-> 0]

\* An emitted signal with its arguments (scraper.py:43-46, search.py:6)
Signal(signal, args) == [signal |-> signal, args |-> args]

\* None, and a CardDatabase, as the argument of finished
NoneDb == <<>>

SomeDb(db) == <<db>>

\* int(((i + 1) / total_packs) * 100), line 77, for the i-th pack counted
\* from 1
progress_of(i, total_packs) == (i * 100) \div total_packs

\* A ScraperThread: where run() stands, self.db, and the locals of run
ScraperThread_init ==
    [pc |-> "load_cache", db |-> EmptyDb, packs_to_scrape |-> <<>>, i |-> 0,
     cards_scraped |-> 0, signals |-> <<>>]

\* run, lines 85-88: the except branch
run_failed(t) ==
    [t EXCEPT !.pc = "done",
              !.signals = @ \o << Signal("error_occurred", <<"e">>),
                                  Signal("finished", <<NoneDb>>) >>]

\* run, lines 56-60: load_cache with its result r
run_loaded(t, r) ==
    IF r.ret THEN
        [t EXCEPT !.pc = "done", !.db = r.db,
                  !.signals = @ \o << Signal("status_update", <<"Loaded cards from cache!">>),
                                      Signal("progress", <<100>>),
                                      Signal("finished", <<SomeDb(r.db)>>) >>]
    ELSE [t EXCEPT !.pc = "open", !.db = r.db]

\* run, lines 62-70: the pack list is read
run_opened(t, file) ==
    IF file.kind # "list" THEN
        run_failed([t EXCEPT !.signals =
                        @ \o <<Signal("status_update", <<"Loading pack URLs...">>)>>])
    ELSE [t EXCEPT !.pc = IF file.packs = <<>> THEN "save_cache" ELSE "scrape",
                   !.packs_to_scrape = file.packs,
                   !.signals = @ \o <<Signal("status_update", <<"Loading pack URLs...">>)>>]

\* pack_scraped with finished emitted after every pack
pack_scraped_finished(t, r) ==
    [t EXCEPT !.pc = IF t.i + 1 = Len(t.packs_to_scrape) THEN "save_cache" ELSE "scrape",
              !.db = r.db,
              !.i = @ + 1,
              !.cards_scraped = @ + r.cards_found,
              !.signals = @ \o << Signal("status_update", <<"Scraping pack">>),
                                  Signal("progress",
                                         <<progress_of(t.i + 1, Len(t.packs_to_scrape))>>),
                                  Signal("finished", <<SomeDb(r.db)>>) >>]

\* run, lines 73-79, with the result r of scrape_cards_from_url
pack_scraped(t, r) ==
    [t EXCEPT !.pc = IF t.i + 1 = Len(t.packs_to_scrape) THEN "save_cache" ELSE "scrape",
              !.db = r.db,
              !.i = @ + 1,
              !.cards_scraped = @ + r.cards_found,
              !.signals = @ \o << Signal("status_update", <<"Scraping pack">>),
                                  Signal("progress",
                                         <<progress_of(t.i + 1, Len(t.packs_to_scrape))>>) >>]

\* run, lines 72-79: one turn of the pack loop
run_pack(t, pages) ==
    IF t.packs_to_scrape[t.i + 1].valid
    THEN pack_scraped(t, scrape_cards_from_url(t.db, pages[t.packs_to_scrape[t.i + 1].url]))
    ELSE run_failed(t)

\* run, lines 82-83, after save_cache
run_saved(t) ==
    [t EXCEPT !.pc = "done",
              !.signals = @ \o << Signal("status_update", <<"Scraping complete!">>),
                                  Signal("finished", <<SomeDb(t.db)>>) >>]

\* The signals of a thread that reach a slot of MainWindow with a body
\* that touches more than the progress bar and the status bar
\* (home.py:101-102, 159)
Terminal(signals) ==
    SelectSeq(signals, LAMBDA s : s.signal \in {"finished", "error_occurred", "search_finished"})

(***************************************************************************)
(* home.py: MainWindow and its slots                                       *)
(***************************************************************************)
\* MainWindow.__init__: self.db, the search button, multi search button and
\* line edit (enabled together), self.scraper_thread and self.search_thread
\* as indexes of the threads started (0: none), the single-shot timer of
\* line 26, the last toast shown, and the exceptions raised out of slots
MainWindow_init ==
    [db |-> NoneDb, enabled |-> TRUE, scraper_thread |-> 0, search_thread |-> 0,
     timer |-> TRUE, toast |-> <<>>, uncaught |-> {}]

\* The three setEnabled calls (home.py:88-90, 116-118, 154-156, 164-166)
setEnabled(w, enabled) == [w EXCEPT !.enabled = enabled]

\* MainWindow.show_toast
show_toast(w, title) == [w EXCEPT !.toast = <<title>>]

\* A slot that returned, and one that raised e: MainWindow has no method
\* show_toas, so self.show_toas(...) raises AttributeError
Returned(w) == [window |-> w, raised |-> {}]

Raised(w, e) == [window |-> w, raised |-> {e}]

\* MainWindow.on_scraping_finished(db_instance, elapsed_time)
on_scraping_finished(w, db_instance, elapsed_time) ==
    IF db_instance # NoneDb /\ db_instance[1].cards # <<>>
    THEN Returned(setEnabled([w EXCEPT !.db = db_instance], TRUE))
    ELSE Raised([w EXCEPT !.db = db_instance], "AttributeError")

\* MainWindow.on_scraping_error(error_message)
on_scraping_error(w, error_message) == Raised(w, "AttributeError")

\* on_search_finished without the three setEnabled(True) calls
on_search_finished_disabled(w, results, elapsed_time) == Returned(w)

\* MainWindow.on_search_finished(results, elapsed_time)
on_search_finished(w, results, elapsed_time) == Returned(setEnabled(w, TRUE))

\* The positional parameters of the slot connected to a signal
\* (home.py:101-102, 159)
slot_parameters(signal) ==
    CASE signal = "finished" -> 2
      [] signal = "error_occurred" -> 1
      [] signal = "search_finished" -> 2

\* The slot connected to the signal, called with its arguments
slot_body(w, s) ==
    CASE s.signal = "finished" -> on_scraping_finished(w, s.args[1], s.args[2])
      [] s.signal = "error_occurred" -> on_scraping_error(w, s.args[1])
      [] s.signal = "search_finished" -> on_search_finished(w, s.args[1], s.args[2])

\* PyQt calls a Python slot with the arguments of the signal, and again
\* with fewer when the call fails on its argument count; a slot that needs
\* more arguments than the signal carries raises TypeError
slot_call(w, s) ==
    IF Len(s.args) < slot_parameters(s.signal) THEN Raised(w, "TypeError")
    ELSE slot_body(w, s)

\* MainWindow.clear_cache: the cache file and the window afterwards; removed
\* tells whether os.remove succeeded
clear_cache(w, file, removed) ==
    IF file.kind = "absent" THEN [file |-> file, r |-> Returned(w)]
    ELSE IF removed THEN [file |-> AbsentFile, r |-> Returned(w)]
    ELSE [file |-> file, r |-> Raised(w, "AttributeError")]

\* scrape_pack_urls as called at home.py:96: the pack list file afterwards
\* and whether the call raised; crawl is what the site returned
scrape_pack_urls(crawl, file) ==
    IF crawl.ok THEN [file |-> PackFile(crawl.packs), raised |-> FALSE]
    ELSE [file |-> file, raised |-> TRUE]

\* scrape_initial_data, lines 94-96: the crawl when the pack list is missing
pack_urls_ensured(crawl, file) ==
    IF file.kind = "absent" THEN scrape_pack_urls(crawl, file)
    ELSE [file |-> file, raised |-> FALSE]

\* initial_data_scraped without the three setEnabled(False) calls
initial_data_scraped_enabled(w, threads, p) ==
    IF p.raised THEN
        [file |-> p.file, threads |-> threads,
         window |-> show_toast(w, "Initialization Error")]
    ELSE
        [file |-> p.file, threads |-> Append(threads, ScraperThread_init),
         window |-> [w EXCEPT !.scraper_thread = Len(threads) + 1]]

\* MainWindow.scrape_initial_data for the outcome p of lines 94-96: the pack
\* list file, the window and the ScraperThreads afterwards
initial_data_scraped(w, threads, p) ==
    IF p.raised THEN
        [file |-> p.file, threads |-> threads,
         window |-> show_toast(setEnabled(w, FALSE), "Initialization Error")]
    ELSE
        [file |-> p.file, threads |-> Append(threads, ScraperThread_init),
         window |-> [setEnabled(w, FALSE) EXCEPT !.scraper_thread = Len(threads) + 1]]

\* MainWindow.scrape_initial_data
scrape_initial_data(w, threads, crawl, file) ==
    initial_data_scraped(w, threads, pack_urls_ensured(crawl, file))

\* A SearchThread(db, query, multi_match) before run()
SearchThread_init(db, query, multi_match) ==
    [pc |-> "run", db |-> db, query |-> query, multi_match |-> multi_match,
     signals |-> <<>>]

\* The matcher call of SearchThread.run raised (any Exception, a
\* MemoryError for one): the except branch of line 23 takes it
MatcherRaised == [raised |-> TRUE, results |-> NoneResult]

\* SearchThread.run for the outcome r of the matcher call: the signals the
\* thread has emitted when run() returns
SearchThread_emitted(t, r) ==
    [t EXCEPT !.pc = "done",
              !.signals = @ \o <<Signal("search_finished", <<emitted(r), 0>>)>>]

\* SearchThread.run, with the search_finished signal it emits
SearchThread_ran(t) ==
    SearchThread_emitted(t, matcher_call(t.db, t.query, t.multi_match))

\* MainWindow._start_search: the window and the SearchThreads afterwards
start_search(w, threads, query, multi_match) ==
    [window |-> [setEnabled(w, FALSE) EXCEPT !.search_thread = Len(threads) + 1],
     threads |-> Append(threads, SearchThread_init(w.db[1], query, multi_match))]

\* MainWindow.search_card and multi_search_card for the stripped text of
\* the line edit
search_card(w, threads, query, multi_match) ==
    IF query = <<>> \/ w.db = NoneDb THEN [window |-> w, threads |-> threads]
    ELSE start_search(w, threads, query, multi_match)

(***************************************************************************)
(* Bounds and inputs                                                       *)
(***************************************************************************)
MaxCards == 2

E == <<>>

CardA == Card(<<"a">>, E, <<"4">>, E, E, E, E, <<"R">>)
\* synthesizes the key of CardA, other level and rarity
CardA2 == Card(<<"a">>, E, <<"7">>, E, E, E, E, <<"U">>)
CardBA == Card(<<"b">>, E, E, E, E, E, <<"a">>, E)
CardStat == Card(<<"a">>, <<"D">>, <<"4">>, <<"c">>, <<"1">>, <<"2">>, <<"b">>, <<"R">>)
\* a card whose key holds no word character
CardDash == Card(<<"-">>, E, E, E, E, E, E, E)
CardAbb == Card(<<"a", "b", "b">>, E, E, E, E, E, E, E)
CardUp == Card(<<"A", " ", "b">>, E, E, E, <<"?">>, E, E, E)

CardPool == {CardA, CardA2, CardBA, CardStat, CardDash, CardAbb, CardUp}

MaxQueryLen == 2
MaxExtractLen == 6

\* Every str of at most n characters of the alphabet
Strings(alphabet, n) == UNION {[1..k -> alphabet] : k \in 0..n}

\* The queries of the search runs: every short query with markers and
\* blanks, every card name, and longer queries with several markers
QueryPool ==
    Strings({"a", "#", " "}, MaxQueryLen) \cup
    {c.name : c \in CardPool \ {CardDash}} \cup
    { E, <<"b">>, <<"a", "b">>, <<"b", " ", "a">>, <<" ", "a", " ">>,
      <<"#", "a", "#">>, <<"#", "a", "#", " ", "b">>, <<"#", "b", "#", " ", "a">>,
      <<"#", "B", "#", "a">>, <<"#", "a", "t", "k", "#", " ", "a">>,
      <<"#", "1", "#", "a">>, <<"#", "a", "#", "#", "b", "#", "a">>,
      <<"#", "#", "a", "#", "b", "#">>, <<"#", "b", "#">>,
      <<"a", " ", "#", " ", "#", " ", "b">> }

\* Cache files found at start-up: none, an undecodable one, and arrays with
\* and without a malformed record.
MalformedRecord == [valid |-> FALSE, card |-> CardDash]

InitCacheFiles ==
    { AbsentFile, InvalidFile, ArrayFile(<<>>),
      ArrayFile(<<ValidRecord(CardA), ValidRecord(CardA2)>>),
      ArrayFile(<<ValidRecord(CardStat), MalformedRecord>>),
      ArrayFile(<<MalformedRecord, ValidRecord(CardBA)>>) }

\* The name texts of the extraction runs: every short text of a letter, a
\* digit and a blank, and texts that are a rarity name or hold a spell or
\* trap phrase
MaxNameLen == 2

NameTexts ==
    Strings({"a", "7", " "}, MaxNameLen) \cup
    { <<"R", "a", "r", "e">>, <<"C", "o", "m", "m", "o", "n">>, <<"G", "o", "l", "d", " ", "R", "a", "r", "e">>, <<"r", "a", "r", "e">>, <<"S", "p", "e", "l", "l", " ", "b">>,
      <<"A", " ", "N", "o", "r", "m", "a", "l", " ", "S", "p", "e", "l", "l">>, <<"C", "o", "u", "n", "t", "e", "r", " ", "T", "r", "a", "p">>, <<"-">> }

\* The shapes of a name node, one for each name selector and source of the
\* name (title attribute or visible text)
NameNodes(name) ==
    { Element("span", {"card_name"}, <<>>, <<>>, <<>>, name, 0),
      Element("span", {"card_name"}, <<name>>, <<>>, <<>>, <<>>, 0),
      Element("span", {"card_name"}, <<name>>, <<>>, <<>>, <<"b">>, 0),
      Element("div", {"card_name_flex_1"}, <<>>, <<>>, <<>>, name, 0),
      Element("td", {"card_name"}, <<>>, <<>>, <<>>, name, 0),
      Element("a", {}, <<name>>, <<>>, <<>>, <<>>, 0),
      Element("a", {}, <<>>, <<>>, <<>>, name, 0) }

\* A card row that holds a name node and nothing else; the row itself is
\* a .t_row, or a .t_title row for the selector '.t_title a'
NameOnlyFragments ==
    { Fragment(class, <<node>>, FALSE) :
        class \in { {"t_row"}, {"t_row", "t_title"} },
        node \in UNION {NameNodes(name) : name \in NameTexts} }

FragmentPool ==
    NameOnlyFragments \cup {FullFragment, SpellFragment, ItemBoxFragment, NamelessFragment}

\* The pages of the packs: rows that extract, are discarded or raise
CardsPage ==
    Page(<<Row(FullFragment), Row(NamelessFragment), Row(RaisingFragment), Row(SpellFragment)>>)

BlankPage == Page(<<Row(RaisingFragment), Row(BlankTitleFragment), Row(ItemBoxFragment)>>)

PackUrls == 1..2

\* pages[url] of the site: each pack page is fetched or not, and one site
\* has a page without card list
PagesPool ==
    { [url \in PackUrls |-> IF url \in fetched THEN <<CardsPage, BlankPage>>[url]
                                              ELSE FailedPage] :
        fetched \in SUBSET PackUrls } \cup
    { [url \in PackUrls |-> Page(<<>>)] }

\* The site: the result of the crawl of the pack list, and pages[url]
Web(ok, packs, pages) == [crawl |-> [ok |-> ok, packs |-> packs], pages |-> pages]

NoWeb == Web(FALSE, <<>>, [url \in PackUrls |-> FailedPage])

\* The pack lists found in the file or crawled
PackLists ==
    { <<>>, <<PackEntry(1), PackEntry(2)>>, <<PackEntry(2), PackEntry(1)>>,
      <<PackEntry(1), BadPackEntry>> }

\* At start-up the pack list is missing and the crawl fails or returns a
\* list, or the file is there and the crawl is not made
InitWebs ==
    { <<Web(TRUE, packs, [url \in PackUrls |-> <<CardsPage, FailedPage>>[url]]),
        AbsentPackFile>> : packs \in {<<>>, <<PackEntry(1), PackEntry(2)>>} } \cup
    { <<NoWeb, AbsentPackFile>> } \cup
    { <<Web(FALSE, <<>>, pages), file>> :
        pages \in PagesPool,
        file \in {InvalidPackFile} \cup {PackFile(packs) : packs \in PackLists} }

\* The threads a run of the application starts at most
MaxThreads == 2

(***************************************************************************)
(* State                                                                   *)
(***************************************************************************)
VARIABLES
    cards,            \* CardDatabase.cards (db.py:92)
    search_corpus,    \* CardDatabase.search_corpus, in insertion order (db.py:93)
    cache_file,       \* the file at config.CACHE_FILE (db.py:94)
    load_ret,         \* what the last load_cache returned: <<>> before any call
    search_thread,    \* <<>>, or <<[query, multi_match]>> of the SearchThread
                      \* that ran (search.py:8-12)
    search_finished,  \* the search_finished events it emitted (search.py:6)
    card_div,         \* the fragment handed to extract_card_info (scraper.py:113)
    extracted,        \* <<>>, or <<what extract_card_info returned>>
    web,              \* what the site returns: the crawl of the pack list and
                      \* the page of each pack url
    pack_urls_file,   \* the file at config.PACK_URLS_FILE
    scraper_threads,  \* the ScraperThreads started, in order (home.py:98)
    search_threads,   \* the SearchThreads started by the window (home.py:158)
    event_queue,      \* signals of the threads queued for the slots of the
                      \* window, which run in the main thread
    window,           \* the MainWindow
    crashed           \* the process was aborted

\* The variables of the extraction runs
extract_vars == <<card_div, extracted>>

\* The variables of the application runs
app_vars == <<web, pack_urls_file, scraper_threads, search_threads, event_queue,
              window, crashed>>

vars == <<cards, search_corpus, cache_file, load_ret, search_thread, search_finished,
          extract_vars, app_vars>>

db_now == [cards |-> cards, search_corpus |-> search_corpus]

\* The catalog is filled by one acquisition and only then handed to the
\* searches (scraper.py run, home.py on_scraping_finished).
Acquiring == search_thread = <<>>

\* No fragment is being extracted
ExtractIdle ==
    /\ card_div = Fragment({}, <<>>, FALSE)
    /\ extracted = <<>>

\* No window: the database is used on its own
AppIdle ==
    /\ web = NoWeb
    /\ pack_urls_file = AbsentPackFile
    /\ scraper_threads = <<>>
    /\ search_threads = <<>>
    /\ event_queue = <<>>
    /\ window = MainWindow_init
    /\ crashed = FALSE

InitDb ==
    /\ cards = EmptyDb.cards
    /\ search_corpus = EmptyDb.search_corpus
    /\ load_ret = <<>>
    /\ search_thread = <<>>
    /\ search_finished = <<>>
    /\ ExtractIdle
    /\ AppIdle

Init == InitDb /\ cache_file = AbsentFile

InitStore == InitDb /\ cache_file \in InitCacheFiles

\* db.add_card(card)
AddCard(card) ==
    /\ Acquiring
    /\ Len(cards) < MaxCards
    /\ LET db == add_card(db_now, card)
       IN  /\ cards' = db.cards
           /\ search_corpus' = db.search_corpus
    /\ UNCHANGED <<cache_file, load_ret, search_thread, search_finished, extract_vars,
                   app_vars>>

\* db.load_cache()
LoadCache ==
    /\ Acquiring
    /\ Len(cards) + Len(cache_file.records) <= MaxCards
    /\ LET r == load_cache(db_now, cache_file)
       IN  /\ cards' = r.db.cards
           /\ search_corpus' = r.db.search_corpus
           /\ load_ret' = <<r.ret>>
    /\ UNCHANGED <<cache_file, search_thread, search_finished, extract_vars, app_vars>>

\* db.save_cache(): the file is written, or open() fails and the error is
\* logged
SaveCache(written) ==
    /\ Acquiring
    /\ cache_file' = IF written THEN ArrayFile(cache_data(cards)) ELSE cache_file
    /\ UNCHANGED <<cards, search_corpus, load_ret, search_thread, search_finished,
                   extract_vars, app_vars>>

\* SearchThread(db, query, multi_match) started and run to its end; each
\* thread object runs once
SearchThreadRun(query, multi_match) ==
    /\ search_thread' = <<[query |-> query, multi_match |-> multi_match]>>
    /\ search_finished' = <<SearchThread_run(db_now, query, multi_match)>>
    /\ UNCHANGED <<cards, search_corpus, cache_file, load_ret, extract_vars, app_vars>>

\* One search task on the acquired catalog
Search ==
    /\ search_thread = <<>>
    /\ \E query \in QueryPool, multi_match \in BOOLEAN :
          SearchThreadRun(query, multi_match)

Next ==
    \/ \E card \in CardPool : AddCard(card)
    \/ Search

Spec == Init /\ [][Next]_vars

NextStore ==
    \/ \E card \in CardPool : AddCard(card)
    \/ LoadCache
    \/ \E written \in BOOLEAN : SaveCache(written)

SpecStore == InitStore /\ [][NextStore]_vars

\* Keyword extraction over every bounded query, on a fixed catalog
ExtractQueries == Strings({"a", "B", "#", " "}, MaxExtractLen)

QueryDb == add_card(add_card(EmptyDb, CardBA), CardAbb)

InitQuery ==
    /\ cards = QueryDb.cards
    /\ search_corpus = QueryDb.search_corpus
    /\ cache_file = AbsentFile
    /\ load_ret = <<>>
    /\ search_thread = <<>>
    /\ search_finished = <<>>
    /\ ExtractIdle
    /\ AppIdle

\* One multi search on the fixed catalog
MultiSearch ==
    /\ search_thread = <<>>
    /\ \E query \in ExtractQueries : SearchThreadRun(query, TRUE)

NextQuery == MultiSearch

SpecQuery == InitQuery /\ [][NextQuery]_vars

\* Extraction runs: extract_card_info applied once to a fragment
InitExtract ==
    /\ cards = EmptyDb.cards
    /\ search_corpus = EmptyDb.search_corpus
    /\ cache_file = AbsentFile
    /\ load_ret = <<>>
    /\ search_thread = <<>>
    /\ search_finished = <<>>
    /\ card_div \in FragmentPool
    /\ extracted = <<>>
    /\ AppIdle

\* card = self.extract_card_info(card_div)
ExtractCardInfo ==
    /\ extracted = <<>>
    /\ extracted' = <<extract_card_info(card_div)>>
    /\ UNCHANGED <<cards, search_corpus, cache_file, load_ret, search_thread,
                   search_finished, card_div, app_vars>>

NextExtract == ExtractCardInfo

SpecExtract == InitExtract /\ [][NextExtract]_vars

(***************************************************************************)
(* The application: the window, its threads and the user (main.py,         *)
(* home.py, scraper.py run, search.py run)                                 *)
(***************************************************************************)
\* The variables of the database used on its own
db_vars == <<cards, search_corpus, load_ret, search_thread, search_finished>>

\* The window is shown on an unused database; the cache and the pack list
\* are what earlier runs or the user left
InitWindow ==
    /\ cards = EmptyDb.cards
    /\ search_corpus = EmptyDb.search_corpus
    /\ load_ret = <<>>
    /\ search_thread = <<>>
    /\ search_finished = <<>>
    /\ ExtractIdle
    /\ \E site \in InitWebs : web = site[1] /\ pack_urls_file = site[2]
    /\ scraper_threads = <<>>
    /\ search_threads = <<>>
    /\ event_queue = <<>>
    /\ window = MainWindow_init
    /\ crashed = FALSE

InitApp == InitWindow /\ cache_file \in InitCacheFiles

\* The first start: no cache file yet
InitFresh == InitWindow /\ cache_file = AbsentFile

\* One step of ScraperThread.run: load_cache, the read of the pack list,
\* one pack, or save_cache and the last signals
run_step(t, file, packs_file, pages) ==
    CASE t.pc = "load_cache" -> run_loaded(t, load_cache(t.db, file))
      [] t.pc = "open" -> run_opened(t, packs_file)
      [] t.pc = "scrape" -> run_pack(t, pages)
      [] t.pc = "save_cache" -> run_saved(t)

\* The signals a thread emitted in the step from old to new that are queued
\* for the window
posted(sender, old, new) ==
    [k \in 1..(Len(Terminal(new.signals)) - Len(Terminal(old.signals))) |->
        [sender |-> sender, s |-> Terminal(new.signals)[Len(Terminal(old.signals)) + k]]]

\* self.scraper_thread or self.search_thread was bound to another thread
\* while this one ran: nothing but run() refers to the QThread any more
Orphan(sender) ==
    IF sender[1] = "scraper" THEN window.scraper_thread # sender[2]
    ELSE window.search_thread # sender[2]

\* A thread returned from run(): a QThread destroyed while running aborts
\* the process
ThreadEnded(sender, t) ==
    crashed' \in (IF t.pc = "done" /\ Orphan(sender) THEN BOOLEAN ELSE {FALSE})

\* ScraperThread n went from t to u; save_cache wrote the file or failed
ScraperStepped(n, t, u, written) ==
    /\ scraper_threads' = [scraper_threads EXCEPT ![n] = u]
    /\ cache_file' = IF t.pc = "save_cache" /\ written
                     THEN ArrayFile(cache_data(t.db.cards)) ELSE cache_file
    /\ event_queue' = event_queue \o posted(<<"scraper", n>>, t, u)
    /\ ThreadEnded(<<"scraper", n>>, u)
    /\ UNCHANGED <<db_vars, extract_vars, web, pack_urls_file, search_threads, window>>

ScraperStep(n) ==
    \E written \in (IF scraper_threads[n].pc = "save_cache" THEN BOOLEAN ELSE {TRUE}) :
        ScraperStepped(n, scraper_threads[n],
                       run_step(scraper_threads[n], cache_file, pack_urls_file, web.pages),
                       written)

\* SearchThread n went from t to u
SearchStepped(n, t, u) ==
    /\ search_threads' = [search_threads EXCEPT ![n] = u]
    /\ event_queue' = event_queue \o posted(<<"search", n>>, t, u)
    /\ ThreadEnded(<<"search", n>>, u)
    /\ UNCHANGED <<db_vars, extract_vars, cache_file, web, pack_urls_file,
                   scraper_threads, window>>

\* run() of SearchThread n: the matcher returns, or raises
SearchStep(n) ==
    \/ SearchStepped(n, search_threads[n],
                     SearchThread_emitted(search_threads[n], MatcherRaised))
    \/ SearchStepped(n, search_threads[n], SearchThread_ran(search_threads[n]))

\* The threads whose run() has not returned
Running ==
    {<<"scraper", n>> : n \in {m \in DOMAIN scraper_threads : scraper_threads[m].pc # "done"}}
    \cup
    {<<"search", n>> : n \in {m \in DOMAIN search_threads : search_threads[m].pc # "done"}}

\* A thread runs on
Step(sender) ==
    /\ ~crashed
    /\ IF sender[1] = "scraper" THEN ScraperStep(sender[2]) ELSE SearchStep(sender[2])

\* A slot of the window returned or raised: an exception that leaves a slot
\* is printed, and with PyQt5 from 5.5 on the process is aborted
SlotDone(r) ==
    /\ window' = [r.window EXCEPT !.uncaught = @ \cup r.raised]
    /\ crashed' \in (IF r.raised = {} THEN {FALSE} ELSE BOOLEAN)

\* The main thread takes the next queued signal and calls the slot
\* connected to it; the signal of an orphan may be lost with its sender
Deliver ==
    /\ ~crashed
    /\ event_queue # <<>>
    /\ \E lost \in (IF Orphan(Head(event_queue).sender) THEN BOOLEAN ELSE {FALSE}) :
          SlotDone(IF lost THEN Returned(window)
                   ELSE slot_call(window, Head(event_queue).s))
    /\ event_queue' = Tail(event_queue)
    /\ UNCHANGED <<db_vars, extract_vars, cache_file, web, pack_urls_file,
                   scraper_threads, search_threads>>

\* self.scraper_thread is bound to a new thread while the thread it held
\* has not returned from run()
Replaced(w) ==
    /\ window.scraper_thread # 0
    /\ w.scraper_thread # window.scraper_thread
    /\ scraper_threads[window.scraper_thread].pc # "done"

\* The effects of scrape_initial_data(): d is what it returned; a running
\* QThread that loses its last reference is destroyed, which aborts the
\* process, unless its run() holds it
InitialData(d) ==
    /\ pack_urls_file' = d.file
    /\ scraper_threads' = d.threads
    /\ window' = d.window
    /\ crashed' \in (IF Replaced(d.window) THEN BOOLEAN ELSE {FALSE})
    /\ UNCHANGED <<db_vars, extract_vars, web, search_threads, event_queue>>

\* QTimer.singleShot(1000, self.scrape_initial_data) fires (home.py:26)
Startup ==
    /\ ~crashed
    /\ window.timer
    /\ Len(scraper_threads) < MaxThreads
    /\ InitialData(scrape_initial_data([window EXCEPT !.timer = FALSE], scraper_threads,
                                       web.crawl, pack_urls_file))
    /\ UNCHANGED cache_file

\* refresh_database after the answer Yes: c is what clear_cache did; when
\* it raised, the slot is left and scrape_initial_data is not called
Refreshed(c) ==
    /\ cache_file' = c.file
    /\ IF c.r.raised = {}
       THEN InitialData(scrape_initial_data(c.r.window, scraper_threads, web.crawl,
                                            pack_urls_file))
       ELSE /\ SlotDone(c.r)
            /\ UNCHANGED <<db_vars, extract_vars, web, pack_urls_file, scraper_threads,
                           search_threads, event_queue>>

\* The user picks File > Refresh Database and answers the question
RefreshDatabase(reply, removed) ==
    /\ ~crashed
    /\ Len(scraper_threads) < MaxThreads
    /\ IF reply THEN Refreshed(clear_cache(window, cache_file, removed))
       ELSE UNCHANGED vars

\* The user picks File > Clear Cache
ClearCache(removed) ==
    /\ ~crashed
    /\ cache_file' = clear_cache(window, cache_file, removed).file
    /\ SlotDone(clear_cache(window, cache_file, removed).r)
    /\ UNCHANGED <<db_vars, extract_vars, web, pack_urls_file, scraper_threads,
                   search_threads, event_queue>>

\* The texts the user searches for
AppQueries == {<<>>, <<"a">>}

\* The user clicks Search or Multi Search, or presses return in the line
\* edit; a disabled control takes no input
SearchCard(query, multi_match) ==
    /\ ~crashed
    /\ window.enabled
    /\ Len(search_threads) < MaxThreads
    /\ window' = search_card(window, search_threads, query, multi_match).window
    /\ search_threads' = search_card(window, search_threads, query, multi_match).threads
    /\ UNCHANGED <<db_vars, extract_vars, cache_file, web, pack_urls_file,
                   scraper_threads, event_queue, crashed>>

NextApp ==
    \/ Startup
    \/ \E reply \in BOOLEAN, removed \in BOOLEAN : RefreshDatabase(reply, removed)
    \/ \E removed \in BOOLEAN : ClearCache(removed)
    \/ \E query \in AppQueries, multi_match \in BOOLEAN : SearchCard(query, multi_match)
    \/ \E sender \in Running : Step(sender)
    \/ Deliver

SpecApp == InitApp /\ [][NextApp]_vars

SpecFresh == InitFresh /\ [][NextApp]_vars

(***************************************************************************)
(* The window with a catalog: the search handlers (home.py search_card,    *)
(* _start_search, on_search_finished; search.py run)                       *)
(***************************************************************************)
\* The cache files the catalog of the window was loaded from
LoadedCacheFiles ==
    { ArrayFile(<<ValidRecord(CardA), ValidRecord(CardA2)>>),
      ArrayFile(<<ValidRecord(CardBA)>>),
      ArrayFile(<<ValidRecord(CardStat), ValidRecord(CardAbb)>>),
      ArrayFile(<<ValidRecord(CardUp)>>) }

\* The cache file of the runs with refreshes
RefreshedCacheFiles == {ArrayFile(<<ValidRecord(CardA), ValidRecord(CardA2)>>)}

\* The sites of these runs: the pack list file names both packs, the page
\* of the first is fetched and the page of the second is fetched or not
SearchWebs ==
    {site \in InitWebs : /\ site[2] = PackFile(<<PackEntry(1), PackEntry(2)>>)
                         /\ site[1].pages[1] = CardsPage}

\* The ScraperThread whose run() returned on a cache hit (scraper.py:56-60)
LoadedThread(file) == run_loaded(ScraperThread_init, load_cache(ScraperThread_init.db, file))

\* The window after the body of on_scraping_finished ran on the catalog of
\* that thread (home.py:114-118): self.db is set and the controls are
\* enabled, which is what search_card asks for (home.py:141)
LoadedWindow(w, t) == on_scraping_finished(w, SomeDb(t.db), 0).window

\* The start-up acquisition completed from the cache and the window holds
\* its catalog
InitSearchOn(files) ==
    /\ cards = EmptyDb.cards
    /\ search_corpus = EmptyDb.search_corpus
    /\ load_ret = <<>>
    /\ search_thread = <<>>
    /\ search_finished = <<>>
    /\ ExtractIdle
    /\ cache_file \in files
    /\ \E site \in SearchWebs :
          /\ Len(scrape_initial_data([MainWindow_init EXCEPT !.timer = FALSE], <<>>,
                                     site[1].crawl, site[2]).threads) = 1
          /\ web = site[1]
          /\ pack_urls_file =
                scrape_initial_data([MainWindow_init EXCEPT !.timer = FALSE], <<>>,
                                    site[1].crawl, site[2]).file
          /\ window =
                LoadedWindow(scrape_initial_data([MainWindow_init EXCEPT !.timer = FALSE],
                                                 <<>>, site[1].crawl, site[2]).window,
                             LoadedThread(cache_file))
    /\ scraper_threads = <<LoadedThread(cache_file)>>
    /\ search_threads = <<>>
    /\ event_queue = <<>>
    /\ crashed = FALSE

InitSearch == InitSearchOn(RefreshedCacheFiles)

InitSearchOnly == InitSearchOn(LoadedCacheFiles)

\* The user searches and refreshes while the threads run
NextSearch ==
    \/ \E reply \in BOOLEAN, removed \in BOOLEAN : RefreshDatabase(reply, removed)
    \/ \E removed \in BOOLEAN : ClearCache(removed)
    \/ \E query \in AppQueries, multi_match \in BOOLEAN : SearchCard(query, multi_match)
    \/ \E sender \in Running : Step(sender)
    \/ Deliver

SpecSearch == InitSearch /\ [][NextSearch]_vars

\* The searches alone
NextSearchOnly ==
    \/ \E query \in AppQueries, multi_match \in BOOLEAN : SearchCard(query, multi_match)
    \/ \E sender \in Running : Step(sender)
    \/ Deliver

\* A started thread is scheduled until run() returns, and the event loop of
\* the main thread handles every queued signal (main.py app.exec_())
Scheduling ==
    /\ WF_vars(\E sender \in Running : Step(sender))
    /\ WF_vars(Deliver)

SpecSearchOnly == InitSearchOnly /\ [][NextSearchOnly]_vars /\ Scheduling

(***************************************************************************)
(* Properties                                                              *)
(***************************************************************************)

HasStats(card) == card.atk # <<>> /\ card.defense # <<>>

\* C1 as stated: for every card of the catalog with non-empty atk and def
\* the corpus holds the key name + description + type + attribute +
\* "ATK: " + atk + "DEF: " + def with nothing between the parts.
C1_NoSeparators ==
    \A i \in DOMAIN cards :
        HasStats(cards[i]) =>
            DictHas(search_corpus,
                    cards[i].name \o cards[i].description \o cards[i].card_type
                        \o cards[i].attribute \o STR_ATK \o cards[i].atk
                        \o STR_DEF \o cards[i].defense)

\* C1 amended: for every card of the catalog with non-empty atk and def the
\* corpus holds the key name + " " + description + " " + type + " " +
\* attribute + "ATK: " + atk + "DEF: " + def: one space between the first
\* four parts, nothing before "ATK: " and nothing before "DEF: ".
C1_KeyFormat ==
    \A i \in DOMAIN cards :
        HasStats(cards[i]) =>
            DictHas(search_corpus,
                    cards[i].name \o <<" ">> \o cards[i].description \o <<" ">>
                        \o cards[i].card_type \o <<" ">> \o cards[i].attribute
                        \o <<"A", "T", "K", ":", " ">> \o cards[i].atk
                        \o <<"D", "E", "F", ":", " ">> \o cards[i].defense)

C1_Witness ==
    /\ \E i \in DOMAIN cards : HasStats(cards[i]) /\ cards[i].attribute # <<>>
    /\ \E n \in DOMAIN search_corpus :
          search_corpus[n].key =
              <<"a", " ", "b", " ", "c", " ", "D", "A", "T", "K", ":", " ", "1",
                "D", "E", "F", ":", " ", "2">>

\* The last position of the sequence whose card synthesizes the key
LastWithKey(key) ==
    SetMax({i \in DOMAIN cards : searchable_text(cards[i]) = key})

C2_InSync ==
    /\ Range(DictKeys(search_corpus)) = {searchable_text(cards[i]) : i \in DOMAIN cards}
    /\ \A m, n \in DOMAIN search_corpus :
          search_corpus[m].key = search_corpus[n].key => m = n
    /\ \A n \in DOMAIN search_corpus :
          search_corpus[n].card = cards[LastWithKey(search_corpus[n].key)]

C2_AppendOnly ==
    /\ Len(cards') >= Len(cards)
    /\ SubSeq(cards', 1, Len(cards)) = cards

\* C2: after any sequence of add_card and load_cache calls the corpus keys
\* are exactly the keys synthesized from the cards of the sequence, each key
\* maps to the last card of the sequence that synthesizes it, and every
\* step leaves the cards already in the sequence in place.
C2_CorpusInSync == [](C2_InSync) /\ [][C2_AppendOnly]_vars

\* Two cards with one key were loaded from the cache: both are in the
\* sequence, the corpus has the later one.
C2_Witness ==
    /\ load_ret = <<TRUE>>
    /\ Len(cards) = 2
    /\ cards[1] # cards[2]
    /\ searchable_text(cards[1]) = searchable_text(cards[2])
    /\ Len(search_corpus) = 1
    /\ search_corpus[1].card = cards[2]

(***************************************************************************)
(* Properties of the searches                                              *)
(***************************************************************************)
Searched == search_thread # <<>>
TheQuery == search_thread[1].query
IsMulti == search_thread[1].multi_match
TheEvent == search_finished[1]
Items == TheEvent.results.items

\* The score of every corpus key against a query, in corpus order
KeyScores(query) ==
    [n \in DOMAIN search_corpus |-> Score(query, search_corpus[n].key)]

\* C3: on a non-empty catalog find_best_match returns a result exactly when
\* the highest score over the corpus keys is at least 60; the result then
\* carries that highest score and the card of the first key that reaches
\* it; calling it again on the unchanged catalog gives the same result.
C3_BestMatch ==
    (Searched /\ ~IsMulti /\ cards # <<>>) =>
        LET sc == KeyScores(TheQuery)
            best == SetMax(Range(sc))
            first == SetMin({n \in DOMAIN sc : sc[n] = best})
            r == TheEvent.results
        IN  /\ Len(search_finished) = 1
            /\ ~TheEvent.error
            /\ r.kind \in {"tuple", "None"}
            /\ (r.kind = "tuple") <=> (best >= 60)
            /\ (r.kind = "tuple") =>
                  /\ r.items[1].score = best
                  /\ r.items[1].score >= 60
                  /\ r.items[1].card = search_corpus[first].card
                  /\ r.items[1].query = TheQuery
            /\ find_best_match(db_now, TheQuery) = r

\* A best match below 100 on a catalog of two cards whose second key wins
C3_Witness ==
    /\ Searched /\ ~IsMulti
    /\ Len(search_corpus) = 2
    /\ TheEvent.results.kind = "tuple"
    /\ TheEvent.results.items[1].score \in 60..99
    /\ TheEvent.results.items[1].card = search_corpus[2].card

\* C4: on an empty catalog a single search delivers None and a multi search
\* delivers an empty list, as the one search_finished event of the task and
\* not through its error branch.
C4_EmptyCatalog ==
    (Searched /\ cards = <<>>) =>
        search_finished =
            <<[results |-> IF IsMulti THEN [kind |-> "list", items |-> <<>>]
                           ELSE [kind |-> "None", items |-> <<>>],
               error |-> FALSE]>>

C4_Witness ==
    /\ Searched /\ cards = <<>> /\ IsMulti
    /\ TheQuery = <<"#", "a", "#", " ", "b">>
    /\ Len(search_finished) = 1

NamedCardPresent == \E i \in DOMAIN cards : cards[i].name = TheQuery

\* C5 as stated: whenever the catalog holds a card whose name is the query,
\* find_best_match returns a card of that name with score 100.
C5_ExactNameWins ==
    (Searched /\ ~IsMulti /\ NamedCardPresent) =>
        /\ TheEvent.results.kind = "tuple"
        /\ TheEvent.results.items[1].score = 100
        /\ TheEvent.results.items[1].card.name = TheQuery

\* C5 amended: whenever the catalog holds a card whose name N is the query
\* and N has at least one letter, digit or underscore, the key of that card
\* scores 100 and find_best_match returns score 100 with the card of the
\* first corpus key, in insertion order, that scores 100 against N.
C5_ExactNameScores100 ==
    (Searched /\ ~IsMulti /\ NamedCardPresent /\ full_process(TheQuery) # <<>>) =>
        LET sc == KeyScores(TheQuery)
            first == SetMin({n \in DOMAIN sc : sc[n] = 100})
        IN  /\ \A i \in DOMAIN cards :
                  cards[i].name = TheQuery =>
                      Score(TheQuery, searchable_text(cards[i])) = 100
            /\ TheEvent.results.kind = "tuple"
            /\ TheEvent.results.items[1].score = 100
            /\ TheEvent.results.items[1].card = search_corpus[first].card

\* The card named like the query was inserted second and is returned
C5_Witness ==
    /\ Searched /\ ~IsMulti
    /\ Len(cards) = 2
    /\ cards[1].name # TheQuery
    /\ cards[2].name = TheQuery
    /\ TheEvent.results.kind = "tuple"
    /\ TheEvent.results.items[1].score = 100
    /\ TheEvent.results.items[1].card = cards[2]

\* The required keywords of a query: the stripped lowercase text of each
\* marker pair
MarkerKeywords(query) ==
    LET m == found_hash_matches(query)
    IN  {Lower(Strip(m[n])) : n \in DOMAIN m}

\* C6: every card returned by find_multiple_matches has a lowercase
\* searchable text that contains every required keyword of the query.
C6_KeywordsRequired ==
    (Searched /\ IsMulti) =>
        \A i \in DOMAIN Items :
            \A kw \in MarkerKeywords(TheQuery) :
                Contains(Lower(searchable_text(Items[i].card)), kw)

\* A marker query that returns one card and rejects another for a keyword
C6_Witness ==
    /\ Searched /\ IsMulti
    /\ MarkerKeywords(TheQuery) # {}
    /\ Len(Items) = 1
    /\ \E n \in DOMAIN search_corpus :
          /\ Score(extract_keywords(TheQuery).clean_query, search_corpus[n].key) >= 50
          /\ \E kw \in MarkerKeywords(TheQuery) :
                ~Contains(Lower(searchable_text(search_corpus[n].card)), kw)

\* C7: every corpus entry that scores at least 50 against the cleaned query
\* and whose whole lowercase searchable text, stat parts included, contains
\* every required keyword is in the result of find_multiple_matches.
C7_FilterComplete ==
    (Searched /\ IsMulti /\ cards # <<>>) =>
        \A n \in DOMAIN search_corpus :
            ( /\ Score(extract_keywords(TheQuery).clean_query, search_corpus[n].key) >= 50
              /\ \A kw \in MarkerKeywords(TheQuery) :
                    Contains(Lower(searchable_text(search_corpus[n].card)), kw) )
            => \E i \in DOMAIN Items : Items[i].card = search_corpus[n].card

\* The query without its n-th marker span
DeleteSpan(query, n) ==
    LET sp == hash_spans(query, 1)[n]
    IN  SubSeq(query, 1, sp[1] - 1) \o SubSeq(query, sp[2] + 1, Len(query))

ResultCards(query) ==
    LET r == find_multiple_matches(db_now, query).items
    IN  {r[i].card : i \in DOMAIN r}

ItemCards == {Items[i].card : i \in DOMAIN Items}

CountHash(query) == Cardinality({i \in DOMAIN query : query[i] = "#"})

\* Every # of the query is one of the two markers of a marker span
AllPaired(query) == CountHash(query) = 2 * Len(hash_spans(query, 1))

\* C8 as stated: for every query and each of its marker spans, the cards
\* returned for the query are among the cards returned for the query with
\* that span deleted.
C8_RemovalNeverShrinks ==
    (Searched /\ IsMulti) =>
        \A n \in DOMAIN hash_spans(TheQuery, 1) :
            ItemCards \subseteq ResultCards(DeleteSpan(TheQuery, n))

\* C8 amended: for every query in which every # belongs to a marker span,
\* and each of its marker spans, the cards returned for the query are among
\* the cards returned for the query with that span deleted.
C8_RemovalNeverShrinksPaired ==
    (Searched /\ IsMulti /\ AllPaired(TheQuery)) =>
        \A n \in DOMAIN hash_spans(TheQuery, 1) :
            ItemCards \subseteq ResultCards(DeleteSpan(TheQuery, n))

\* Deleting a marker of a well-formed query strictly grows a non-empty result
C8_Witness ==
    /\ Searched /\ IsMulti /\ AllPaired(TheQuery)
    /\ ItemCards # {}
    /\ \E n \in DOMAIN hash_spans(TheQuery, 1) :
          /\ ItemCards \subseteq ResultCards(DeleteSpan(TheQuery, n))
          /\ ItemCards # ResultCards(DeleteSpan(TheQuery, n))

\* The place of a returned card's key in the corpus
KeyIndex(card) ==
    CHOOSE n \in DOMAIN search_corpus : search_corpus[n].key = searchable_text(card)

\* C9: the list of find_multiple_matches is in descending score order,
\* equal scores keep corpus order, every entry scores at least 50 with the
\* score of its own key, no key has two entries, and without a limit every
\* entry that passes the cutoff and the keyword filter is in the list.
C9_Ordered ==
    (Searched /\ IsMulti /\ cards # <<>>) =>
        LET kw == extract_keywords(TheQuery)
        IN  /\ \A i, j \in DOMAIN Items :
                  i < j =>
                      /\ Items[i].score >= Items[j].score
                      /\ Items[i].score = Items[j].score =>
                            KeyIndex(Items[i].card) < KeyIndex(Items[j].card)
                      /\ searchable_text(Items[i].card) # searchable_text(Items[j].card)
            /\ \A i \in DOMAIN Items :
                  /\ Items[i].score >= 50
                  /\ Items[i].score = Score(kw.clean_query, searchable_text(Items[i].card))
            /\ \A n \in DOMAIN search_corpus :
                  ( /\ Score(kw.clean_query, search_corpus[n].key) >= 50
                    /\ \A k \in DOMAIN kw.required_keywords :
                          Contains(card_text_for_check(search_corpus[n].card),
                                   kw.required_keywords[k]) )
                  => \E i \in DOMAIN Items : Items[i].card = search_corpus[n].card

\* Two entries with equal scores, listed in corpus order
C9_Witness ==
    /\ Searched /\ IsMulti
    /\ Len(Items) = 2
    /\ Items[1].score = Items[2].score
    /\ Items[1].card = search_corpus[1].card
    /\ Items[2].card = search_corpus[2].card

\* The query with all its marker spans deleted, from span n down to 1
RECURSIVE DeleteSpans(_, _)
DeleteSpans(query, n) ==
    IF n = 0 THEN query
    ELSE LET sp == hash_spans(query, 1)[n]
         IN  DeleteSpans(SubSeq(query, 1, sp[1] - 1), n - 1)
                 \o SubSeq(query, sp[2] + 1, Len(query))

OutsideText(query) == DeleteSpans(query, Len(hash_spans(query, 1)))

NoBlankRuns(s) ==
    /\ s = <<>> \/ (s[1] \notin Whitespace /\ s[Len(s)] \notin Whitespace)
    /\ \A i \in 1..(Len(s) - 1) : ~(s[i] \in Whitespace /\ s[i + 1] \in Whitespace)

SquashBlanks(s) == Strip(CollapseSpaces(s))

C10_Common(query) ==
    LET kw == extract_keywords(query)
        spans == hash_spans(query, 1)
    IN  /\ kw.required_keywords =
              [n \in DOMAIN spans |->
                  Lower(Strip(SubSeq(query, spans[n][1] + 1, spans[n][2] - 1)))]
        /\ NoBlankRuns(kw.clean_query)
        /\ kw.clean_query = SquashBlanks(OutsideText(query))

NameOnlyExtracted ==
    /\ extracted # <<>>
    /\ Len(card_div.elements) = 1
    /\ title_or_text(card_div, 1) # <<>>
    /\ extract_card_name(card_div) # <<>>

\* C19 as stated: extract_card_info on a fragment that holds only a name
\* node returns the Card with that name, attribute, level, type, atk and def
\* "N/A", description "No Description" and rarity "N/A", whatever the name
\* text is.
C19_NameOnlyDefaults ==
    NameOnlyExtracted =>
        extracted[1] = <<Card(title_or_text(card_div, 1), STR_NA, STR_NA, STR_NA,
                              STR_NA, STR_NA, STR_NO_DESCRIPTION, STR_NA)>>

(***************************************************************************)
(* Properties of the acquisition and of the window                         *)
(***************************************************************************)
\* ScraperThread n has run load_cache and it returned False: run() stands
\* before the read of the pack list
NotLoaded(n) == scraper_threads[n].pc = "open"

\* C12: whenever load_cache reports "not loaded", the card sequence and the
\* corpus of the catalog are both empty afterwards, so that the scrape that
\* follows starts from an empty catalog.
C12_AllOrNothing ==
    \A n \in DOMAIN scraper_threads :
        NotLoaded(n) => scraper_threads[n].db = EmptyDb

\* The finished signals ScraperThread t has emitted
Completions(t) == SelectSeq(t.signals, LAMBDA s : s.signal = "finished")

\* Every ScraperThread has emitted finished once when run() has returned,
\* and not before
ReportsOnce ==
    \A n \in DOMAIN scraper_threads :
        Len(Completions(scraper_threads[n])) =
            IF scraper_threads[n].pc = "done" THEN 1 ELSE 0

\* A completion event with a null catalog, or with a catalog and the
\* elapsed time
CarriesResult(s) ==
    \/ s.args[1] = NoneDb
    \/ Len(s.args) = 2

\* C13: every started acquisition task reports completion exactly once on
\* every path, and the completion event it hands to the handler of the
\* window carries a catalog together with the elapsed time, or a null
\* catalog.
C13_CompletionOnce ==
    /\ ReportsOnce
    /\ \A n \in DOMAIN scraper_threads :
          \A k \in DOMAIN Completions(scraper_threads[n]) :
              CarriesResult(Completions(scraper_threads[n])[k])

\* ScraperThread t has emitted error_occurred
ErrorSignalled(t) == \E k \in DOMAIN t.signals : t.signals[k].signal = "error_occurred"

\* The completion event s of thread t reports a failure when t ended with
\* no card, and hands over a catalog only when it holds a card
FailureWhenEmpty(t, s) ==
    /\ s.args[1] # NoneDb => s.args[1][1].cards # <<>>
    /\ t.db.cards = <<>> => s.args[1] = NoneDb /\ ErrorSignalled(t)

\* C14: an acquisition that ends with zero cards is reported as failed, by
\* an error signal and a completion with a null catalog, and a completion
\* that carries a catalog carries a non-empty one.
C14_EmptyIsFailure ==
    \A n \in DOMAIN scraper_threads :
        \A k \in DOMAIN Completions(scraper_threads[n]) :
            FailureWhenEmpty(scraper_threads[n], Completions(scraper_threads[n])[k])

\* The cards of the rows of a page that extracted, in document order
RowCards(page) ==
    IF page.ok
    THEN [k \in DOMAIN SelectSeq(page.card_rows, LAMBDA row : ~row.raises /\ row.card # <<>>) |->
            SelectSeq(page.card_rows, LAMBDA row : ~row.raises /\ row.card # <<>>)[k].card[1]]
    ELSE <<>>

\* The cards of the first i packs of a pack list, in pack order
RECURSIVE PackCards(_, _)
PackCards(packs, i) ==
    IF i = 0 THEN <<>>
    ELSE PackCards(packs, i - 1) \o RowCards(web.pages[packs[i].url])

\* Every entry of the pack list has its name and url
WellFormed(packs) == \A k \in DOMAIN packs : packs[k].valid

\* run() of t is in the pack loop or has left it by its end
InOrPastLoop(t) ==
    \/ t.pc \in {"scrape", "save_cache"}
    \/ \E k \in DOMAIN t.signals :
          /\ t.signals[k].signal = "status_update"
          /\ t.signals[k].args = <<"Scraping complete!">>

\* The cards t added since the pack loop began are those of the rows that
\* extracted, counted by cards_scraped, and the loop leaves no pack out
IsolatedSince(t) ==
    /\ t.cards_scraped = Len(PackCards(t.packs_to_scrape, t.i))
    /\ Len(t.db.cards) >= t.cards_scraped
    /\ SubSeq(t.db.cards, Len(t.db.cards) - t.cards_scraped + 1, Len(t.db.cards))
           = PackCards(t.packs_to_scrape, t.i)
    /\ t.pc # "scrape" => t.i = Len(t.packs_to_scrape)

\* Failing packs and rows neither stop the pack loop nor change what the
\* other rows add
LoopIsolatesFailures ==
    \A n \in DOMAIN scraper_threads :
        InOrPastLoop(scraper_threads[n]) /\ WellFormed(scraper_threads[n].packs_to_scrape)
            => IsolatedSince(scraper_threads[n])

\* C15: whichever pack fetches fail and whichever rows raise, the run
\* visits every pack in list order and completes, and the catalog holds
\* exactly the cards of the rows that extracted, in pack order then document
\* order, as many as scrape_cards_from_url counted.
C15_FailureIsolation ==
    \A n \in DOMAIN scraper_threads :
        InOrPastLoop(scraper_threads[n]) /\ WellFormed(scraper_threads[n].packs_to_scrape)
            => /\ IsolatedSince(scraper_threads[n])
               /\ scraper_threads[n].db.cards
                      = PackCards(scraper_threads[n].packs_to_scrape, scraper_threads[n].i)

\* ScraperThread t ended with an error signal and a completion event that
\* carries a null catalog
TerminalError(t) ==
    /\ ErrorSignalled(t)
    /\ Completions(t) = <<Signal("finished", <<NoneDb>>)>>

\* The crawl of the pack list failed in scrape_initial_data
CrawlFailed == window.toast = <<"Initialization Error">>

\* run() of t has tried to read the pack list and found no list
PackListUnread(t) ==
    /\ t.pc = "done"
    /\ pack_urls_file.kind # "list"
    /\ \E k \in DOMAIN t.signals :
          /\ t.signals[k].signal = "status_update"
          /\ t.signals[k].args = <<"Loading pack URLs...">>

\* C16: when the crawl of the pack list fails, or the pack list file is
\* missing or unreadable, the acquisition is aborted and the window gets an
\* error signal and a completion event with a null catalog.
C16_TerminalError ==
    /\ CrawlFailed => \E n \in DOMAIN scraper_threads : TerminalError(scraper_threads[n])
    /\ \A n \in DOMAIN scraper_threads :
          PackListUnread(scraper_threads[n]) => TerminalError(scraper_threads[n])

\* The part of C16 on the pack list file alone
PackListErrorReported ==
    \A n \in DOMAIN scraper_threads :
        PackListUnread(scraper_threads[n]) => TerminalError(scraper_threads[n])

\* The acquisition tasks and the search tasks whose run() has not returned
AcquisitionsInFlight ==
    {n \in DOMAIN scraper_threads : scraper_threads[n].pc # "done"}

SearchesInFlight ==
    {n \in DOMAIN search_threads : search_threads[n].pc # "done"}

\* C17: under every interleaving of the user actions with the events of the
\* background tasks, at most one acquisition task and at most one search
\* task are in flight.
C17_OneInFlight ==
    ~crashed =>
        /\ Cardinality(AcquisitionsInFlight) <= 1
        /\ Cardinality(SearchesInFlight) <= 1

CatalogNamed(db) ==
    /\ \A k \in DOMAIN db.cards : db.cards[k].name # <<>>
    /\ \A k \in DOMAIN db.search_corpus : db.search_corpus[k].card.name # <<>>

\* A row without name is discarded: the sequence holds the cards of the
\* other rows and nothing else, and the corpus holds no other card
DiscardedAddNothing(t) ==
    /\ t.db.cards = PackCards(t.packs_to_scrape, t.i)
    /\ \A k \in DOMAIN t.db.search_corpus :
          \E j \in DOMAIN t.db.cards : t.db.cards[j] = t.db.search_corpus[k].card

\* None of the five name selectors yields a non-empty title attribute or
\* visible text on the fragment
NoNameYielded(fragment) ==
    \A n \in DOMAIN name_selectors :
        \/ select_one(fragment, 0, name_selectors[n]) = 0
        \/ title_or_text(fragment, select_one(fragment, 0, name_selectors[n])) = <<>>

\* extract_card_info returns None exactly for the fragments without name,
\* and a Card with a non-empty name for the others
NamelessDiscarded ==
    extracted # <<>> =>
        /\ extracted[1] = <<>> <=> NoNameYielded(card_div)
        /\ extracted[1] # <<>> => extracted[1][1].name # <<>>

\* C20: in every state reached by extraction, save_cache and load_cache of
\* a cache the program wrote, every card of the catalog has a non-empty
\* name, and a row for which no name selector yields a name adds no card
\* to the sequence or to the corpus.
C20_NamesNonEmpty ==
    /\ \A n \in DOMAIN scraper_threads : CatalogNamed(scraper_threads[n].db)
    /\ \A k \in DOMAIN cache_file.records : cache_file.records[k].card.name # <<>>
    /\ \A n \in DOMAIN scraper_threads :
          InOrPastLoop(scraper_threads[n]) /\ WellFormed(scraper_threads[n].packs_to_scrape)
              => DiscardedAddNothing(scraper_threads[n])

\* A page with a nameless row was scraped, the catalog was saved, and a
\* second thread loaded the cache the first one wrote
C20_Witness ==
    /\ Len(scraper_threads) = 2
    /\ \E k \in DOMAIN web.pages[1].card_rows :
          ~web.pages[1].card_rows[k].raises /\ web.pages[1].card_rows[k].card = <<>>
    /\ \E n \in {1, 2} :
          /\ scraper_threads[n].pc = "done"
          /\ InOrPastLoop(scraper_threads[n])
          /\ scraper_threads[n].packs_to_scrape = <<PackEntry(1), PackEntry(2)>>
          /\ Len(scraper_threads[n].db.cards) = 2
          /\ cache_file = ArrayFile(cache_data(scraper_threads[n].db.cards))
          /\ scraper_threads[3 - n].pc = "done"
          /\ ~InOrPastLoop(scraper_threads[3 - n])
          /\ scraper_threads[3 - n].db.cards = scraper_threads[n].db.cards

\* load_cache returns True on the file: every record of the array builds a
\* Card (db.py:176-184)
ValidCache(file) == load_cache(EmptyDb, file).ret

\* The cards of the records of a cache file, in order
CachedCards(file) == [k \in DOMAIN file.records |-> file.records[k].card]

\* The step is the first step of run() of ScraperThread n
CacheRead(n) ==
    /\ scraper_threads[n].pc = "load_cache"
    /\ scraper_threads'[n].pc # "load_cache"

\* run() of a thread that finds a valid cache returns at once: the catalog
\* it signals is the cached one, no pack page was fetched and the cache
\* file is left as it was
CacheHitCompletes ==
    [][\A n \in DOMAIN scraper_threads :
          CacheRead(n) /\ ValidCache(cache_file) =>
              /\ scraper_threads'[n].pc = "done"
              /\ scraper_threads'[n].i = 0
              /\ scraper_threads'[n].db.cards = CachedCards(cache_file)
              /\ Terminal(scraper_threads'[n].signals)
                    = <<Signal("finished", <<SomeDb(scraper_threads'[n].db)>>)>>
              /\ cache_file' = cache_file]_vars

\* scrape_initial_data called with a valid cache in place starts the
\* acquisition task and leaves the pack list alone: the top-level crawl,
\* which writes the pack list or raises, is not made
CrawlSkipped ==
    [][ValidCache(cache_file') =>
          /\ pack_urls_file' = pack_urls_file
          /\ window.timer /\ ~window'.timer =>
                Len(scraper_threads') = Len(scraper_threads) + 1]_vars

\* The same with the pack list file in place
CrawlSkippedWithPackList ==
    [][ValidCache(cache_file') /\ pack_urls_file.kind # "absent" =>
          /\ pack_urls_file' = pack_urls_file
          /\ window.timer /\ ~window'.timer =>
                Len(scraper_threads') = Len(scraper_threads) + 1]_vars

\* C22: an acquisition that starts with a valid cache file in place
\* completes from the cache with the cached catalog, fetches nothing from
\* the network, neither the top-level crawl nor a pack page, and does not
\* rewrite the cache file, whether or not the pack list file exists.
C22_CacheHit == CacheHitCompletes /\ CrawlSkipped

\* run() of a SearchThread emits search_finished once, with results and an
\* elapsed time, on the path where the matcher returned and on the path
\* where it raised, and nothing else
EmitsOnce ==
    \A n \in DOMAIN search_threads :
        /\ search_threads[n].pc = "run" => search_threads[n].signals = <<>>
        /\ search_threads[n].pc = "done" =>
              /\ Len(search_threads[n].signals) = 1
              /\ search_threads[n].signals[1].signal = "search_finished"
              /\ Len(search_threads[n].signals[1].args) = 2

\* The main thread calls the slot of a queued search_finished signal: the
\* search controls are enabled when it returns
HandlerEnables ==
    /\ event_queue # <<>>
    /\ event_queue' = Tail(event_queue)
    /\ Head(event_queue).s.signal = "search_finished"
    => window'.enabled /\ window'.uncaught = window.uncaught

\* SearchThread n was started and run() has not returned
SearchStarted(n) ==
    /\ n \in DOMAIN search_threads
    /\ search_threads[n].pc = "run"

\* run() of SearchThread n returned, its signal was handled and the search
\* controls are enabled
SearchReenabled(n) ==
    /\ n \in DOMAIN search_threads
    /\ search_threads[n].pc = "done"
    /\ \A k \in DOMAIN event_queue : event_queue[k].sender # <<"search", n>>
    /\ window.enabled

\* C23: every search that is started finishes and the search controls are
\* enabled again: run() emits exactly one search_finished event on every
\* path, the one where the matcher raises included, and the handler of the
\* event enables the search button, the multi search button and the line
\* edit.
C23_SearchFinishes ==
    /\ []EmitsOnce
    /\ [][HandlerEnables]_vars
    /\ \A n \in 1..MaxThreads : SearchStarted(n) ~> SearchReenabled(n)

\* A search whose matcher raised has finished: the event with results None
\* was handled and the controls are enabled
C23_Witness ==
    /\ \E n \in DOMAIN search_threads :
          /\ SearchReenabled(n)
          /\ window.search_thread = n
          /\ search_threads[n].signals[1].args[1].error
          /\ search_threads[n].signals[1].args[1].results = NoneResult
    /\ \E n \in DOMAIN search_threads :
          /\ SearchReenabled(n)
          /\ ~search_threads[n].signals[1].args[1].error
          /\ search_threads[n].signals[1].args[1].results # NoneResult

\* The searches together with refreshes, under the same scheduling
SpecSearchFair == SpecSearch /\ Scheduling

\* With refreshes between the searches a started search finishes and the
\* controls are enabled again, unless the process is aborted meanwhile
SearchFinishesUnlessAborted ==
    \A n \in 1..MaxThreads : SearchStarted(n) ~> (SearchReenabled(n) \/ crashed)

\* The acquisition task has emitted its completion event
Completed(t) == Completions(t) # <<>>

\* A task that is started holds a new, empty CardDatabase
\* (scraper.py:48-50), and a step changes the catalog of one task at most
FreshCatalog ==
    /\ Len(scraper_threads') > Len(scraper_threads) =>
          scraper_threads'[Len(scraper_threads')].db = EmptyDb
    /\ \A n, m \in DOMAIN scraper_threads :
          n # m /\ scraper_threads'[n].db # scraper_threads[n].db =>
              scraper_threads'[m].db = scraper_threads[m].db

\* self.db of the window changes only when the main thread handles a queued
\* finished signal
ReplacedByCompletion ==
    window'.db # window.db =>
        /\ event_queue # <<>>
        /\ Head(event_queue).s.signal = "finished"
        /\ event_queue' = Tail(event_queue)

\* A task that has emitted finished adds no card to its catalog
NoAddAfterCompletion ==
    \A n \in DOMAIN scraper_threads :
        Completed(scraper_threads[n]) => scraper_threads'[n].db = scraper_threads[n].db

\* The catalog of SearchThread n is, as it stands, the catalog of a task
\* that has emitted finished
ReadsCompleted(n) ==
    \E m \in DOMAIN scraper_threads :
        /\ Completed(scraper_threads[m])
        /\ scraper_threads[m].db = search_threads[n].db

\* C21: under every interleaving of searches, refreshes and the steps of
\* the acquisition tasks, the catalog a search in flight reads is not
\* changed: it is the catalog of a task that has emitted its completion
\* event, such a task adds no card afterwards, every task fills a new
\* CardDatabase of its own, and self.db of the window is replaced only by
\* a completion event.
C21_CatalogStable ==
    /\ [](\A n \in SearchesInFlight : ReadsCompleted(n))
    /\ [][\A n \in SearchesInFlight : search_threads'[n].db = search_threads[n].db]_vars
    /\ [][NoAddAfterCompletion]_vars
    /\ [][FreshCatalog]_vars
    /\ [][ReplacedByCompletion]_vars

\* A search is in flight on the catalog of the first task while the task
\* of a refresh adds the cards of a pack to its own catalog
C21_Witness ==
    /\ ~crashed
    /\ SearchesInFlight # {}
    /\ \A n \in SearchesInFlight :
          /\ search_threads[n].db = scraper_threads[1].db
          /\ search_threads[n].db = window.db[1]
    /\ Len(scraper_threads) = 2
    /\ Completed(scraper_threads[1])
    /\ scraper_threads[2].pc = "scrape"
    /\ scraper_threads[2].i = 1
    /\ scraper_threads[2].db.cards # <<>>
    /\ scraper_threads[2].db # scraper_threads[1].db

====
